---- MODULE Spec2Model ----
(***************************************************************************)
(* Model of the simforge Go tracing client: the span engine (Client.Span,  *)
(* Client.Start, ActiveSpan), the context stack (span_context.go), the     *)
(* trace state store and the fire-and-forget delivery of span payloads     *)
(* (http.go).                                                              *)
(*                                                                         *)
(* uuid strings are modelled as positive integers drawn from a counter,    *)
(* the empty string "" (no parent) as 0.  A context.Context is modelled by *)
(* the []spanEntry slice it carries: a slice header (backing array, len)   *)
(* into a heap of backing arrays, so that sharing of backing storage       *)
(* between contexts is something the model can express.                    *)
(***************************************************************************)
EXTENDS Integers, Sequences, FiniteSets, TLC

\* ------------------------------------------------------------------ bounds
MaxIDs == 6       \* uuids minted in one run
MaxDepth == 2     \* Client.Span calls nested on one thread
MaxHandles == 2   \* ActiveSpan objects allocated in one run
MaxSets == 2      \* setter calls (SetInput, ..., SetSessionID) in a Start/End run
MaxActive == 1    \* ActiveSpan objects of the single-goroutine Start/End runs
MaxSends == 3     \* direct sendExternalSpan calls in one run
MaxAttempts == 3  \* attempt count (cfg.maxRetries) of one request call
MaxKids == 2      \* fields, entries or elements of a serialized container
MaxNest == 2      \* containers nested in one another in a serialized value
MaxKeyLen == 3    \* characters of an API key given to NewClient
MaxOpts == 2      \* WithEnabled options given to one NewClient call
MaxNodes == 2     \* objects of a value graph given to serializeValue
MaxStoreOps == 3  \* calls of the trace state store functions in one run

\* the goroutines of the host application
Threads == {1, 2}

\* --------------------------------------------------------------- constants
\* An enum that lacks one of the six types.
validSpanTypesNoHandoff == {"llm", "agent", "function", "guardrail", "custom"}

\* constants.go: validSpanTypes
validSpanTypes == {"llm", "agent", "function", "guardrail", "handoff", "custom"}

\* simforge.go: spanConfig default, spanType: "custom"
DefaultSpanType == "custom"

\* What a caller may pass for the span type: no WithType option at all, one
\* of the valid types, or a string outside the enum.
NoOpt == "<none>"
TypeOptions == {NoOpt, "llm", "agent", "function", "guardrail", "handoff",
                "custom", "bogus"}

\* Values a wrapped function may return / a caller may record as output:
\* nil, a JSON-encodable value, a value json.Marshal rejects (chan, func),
\* a value whose MarshalJSON method panics.
Outputs == {"nil", "ok", "chan", "panicsJSON"}
\* error values: nil, an ordinary error, an error whose Error() panics
\* (e.g. a nil pointer of a type with a value-receiver Error method).
Errors == {"nil", "errBoom", "errPanics"}
\* the (result, error) pairs a wrapped function returns
Returns == {<<"ok", "nil">>, <<"nil", "nil">>, <<"chan", "nil">>,
            <<"panicsJSON", "nil">>, <<"ok", "errBoom">>,
            <<"nil", "errPanics">>}

InvalidTypeErr == "simforge: invalid span type"

\* --------------------------------------------------------------- variables
VARIABLES
    enabled,    \* Client.enabled
    nextID,     \* number of uuids minted so far (uuid.New)
    arrays,     \* heap of []spanEntry backing arrays
    ctx,        \* ctx[t]: the context.Context the code on thread t holds
    frames,     \* frames[t]: Client.Span calls whose fn is executing on t
    spans,      \* the ActiveSpan objects allocated by Client.Start
    pc,         \* pc[t] = 0: running user code; h > 0: inside spans[h].End()
    ret,        \* what the most recent Span/Start call returned
    created,    \* log of span creations (ids chosen, parent entry seen)
    handed,     \* log of the sendExternalSpan calls: the ids of each payload
    inflight,   \* payloads of the sendExternalSpan goroutines still running
    wg,         \* httpClient.wg counter
    posted,     \* number of HTTP requests issued
    states,     \* traceStateStore.states
    nsets,      \* number of setter calls made so far
    crashed,    \* a panic escaped the instrumentation into the host
    fl,         \* fl[t]: the httpClient.flush call of thread t
    call        \* the last direct call of request / serializeValue

vars == <<enabled, nextID, arrays, ctx, frames, spans, pc, ret, created,
          handed, inflight, wg, posted, states, nsets, crashed, fl, call>>

\* ------------------------------------------------------------ context stack
\* context.Background(): no span stack value
Background == [arr |-> 0, len |-> 0]

\* nil *spanEntry
NilEntry == [traceID |-> 0, spanID |-> 0]

\* stack, _ := ctx.Value(spanStackKey{}).([]spanEntry)
stackOf(arrs, c) == IF c.arr = 0 THEN << >> ELSE SubSeq(arrs[c.arr], 1, c.len)

\* A lookup that ignores the context and reads the stack pushed last
\* (a process-wide "current stack").
currentSpanGlobal(arrs, c) ==
    IF Len(arrs) = 0 THEN NilEntry ELSE arrs[Len(arrs)][Len(arrs[Len(arrs)])]

\* A lookup that returns the bottom of the stack (the root span).
currentSpanBottom(arrs, c) ==
    LET stack == stackOf(arrs, c)
    IN  IF Len(stack) = 0 THEN NilEntry ELSE stack[1]

\* span_context.go: currentSpan
currentSpan(arrs, c) ==
    LET stack == stackOf(arrs, c)
    IN  IF Len(stack) = 0 THEN NilEntry ELSE stack[Len(stack)]

\* A push that reuses the parent's backing array (append into spare
\* capacity) instead of copying.
withSpanContextShared(arrs, c, traceID, spanID) ==
    LET e == [traceID |-> traceID, spanID |-> spanID]
    IN  IF c.arr = 0
        THEN [arrays |-> Append(arrs, <<e>>),
              ctx    |-> [arr |-> Len(arrs) + 1, len |-> 1]]
        ELSE [arrays |-> [arrs EXCEPT ![c.arr] = SubSeq(@, 1, c.len) \o <<e>>],
              ctx    |-> [arr |-> c.arr, len |-> c.len + 1]]

\* span_context.go: withSpanContext -- make(len+1), copy, store, WithValue
withSpanContext(arrs, c, traceID, spanID) ==
    LET stack    == stackOf(arrs, c)
        newStack == stack \o <<[traceID |-> traceID, spanID |-> spanID]>>
    IN  [arrays |-> Append(arrs, newStack),
         ctx    |-> [arr |-> Len(arrs) + 1, len |-> Len(stack) + 1]]


\* ------------------------------------------------------------- span engine
\* simforge.go Client.Span / Client.Start: cfg.spanType after the options ran
cfgSpanType(opt) == IF opt = NoOpt THEN DefaultSpanType ELSE opt

\* Ids of a span that reuses the parent's span id instead of minting one.
chooseIDsReuseSpan(parent, n) ==
    [traceID      |-> IF parent # NilEntry THEN parent.traceID ELSE n + 1,
     spanID       |-> IF parent # NilEntry THEN parent.spanID ELSE n + 2,
     parentSpanID |-> IF parent # NilEntry THEN parent.spanID ELSE 0]

\* Ids of a span whose root does not mint: every root lands in trace 1.
chooseIDsFixedTrace(parent, n) ==
    [traceID      |-> IF parent # NilEntry THEN parent.traceID ELSE 1,
     spanID       |-> n + 2,
     parentSpanID |-> IF parent # NilEntry THEN parent.spanID ELSE 0]

\* simforge.go Client.Span 155-165 (same code in Client.Start 241-251):
\* traceID := uuid.New(); if parent != nil { traceID = parent.traceID };
\* spanID := uuid.New(); parentSpanID = parent.spanID if parent != nil.
\* n is the number of uuids minted before the call; two are minted.
chooseIDs(parent, n) ==
    [traceID      |-> IF parent # NilEntry THEN parent.traceID ELSE n + 1,
     spanID       |-> n + 2,
     parentSpanID |-> IF parent # NilEntry THEN parent.spanID ELSE 0]

\* err.Error() panics for this error value
ErrorPanics(e) == e = "errPanics"

\* A record that carries the error's type name instead of its message.
ErrorTextType(e) == "*errors.errorString"

\* err.Error(): the message text of an error value
ErrorText(e) == IF e = "errBoom" THEN "boom" ELSE "?"

\* The payload map built by Client.Span 180-217 / ActiveSpan.End 366-410 and
\* completed by sendExternalSpan (sdkVersion).  A key the code leaves out is
\* modelled by 0 (parent_id), "nil" (output, error) or an empty sequence.
Payload(traceID, spanID, parentSpanID, spanType, input, output, err, metadata) ==
    [kind      |-> "rawSpan",
     id        |-> spanID,
     trace_id  |-> traceID,
     parent_id |-> parentSpanID,
     type      |-> spanType,
     input     |-> input,
     output    |-> output,
     error     |-> err,
     metadata  |-> metadata]

\* constants.go: Version
Version == "0.6.0"

\* A send that writes sdkVersion into the map it was given and transmits
\* that map.
copyPayloadInPlace(payload) ==
    LET same == [k \in DOMAIN payload \cup {"sdkVersion"} |->
                    IF k = "sdkVersion" THEN Version ELSE payload[k]]
    IN  [payload |-> same, merged |-> same]

\* http.go 97-101: merged is a new map with the payload's entries and
\* sdkVersion; payload is the caller's map as the call leaves it
copyPayload(payload) ==
    [payload |-> payload,
     merged  |-> [k \in DOMAIN payload \cup {"sdkVersion"} |->
                     IF k = "sdkVersion" THEN Version ELSE payload[k]]]

\* A send that drops the record: nothing is handed over.
sendExternalSpanDropped(p) == UNCHANGED <<handed, inflight, wg>>

\* http.go sendExternalSpan: copy the payload, wg.Add(1), start a goroutine
sendExternalSpan(p) ==
    /\ handed' = Append(handed, [kind |-> p.kind, id |-> p.id,
                                 trace_id |-> p.trace_id,
                                 parent_id |-> p.parent_id])
    /\ inflight' = inflight @@ ((Len(handed) + 1) :> copyPayload(p).merged)
    /\ wg' = wg + 1

NoValue == "nil"
\* a nil map[string]any, and the maps a caller passes to SetMetadata
NilMap == [isNil |-> TRUE, kv |-> << >>]
MetaArgs == {NilMap, [isNil |-> FALSE, kv |-> ("a" :> 1)]}
\* a nil input, and the argument lists a caller passes to SetInput
NoInput == [kind |-> "nil", v |-> << >>]
InputArgs == {<<"x">>, <<"x", "y">>}
\* What a call returned: result, err (Span), outCtx, span (Start).  The other
\* fields record the call itself: the context and span type passed, whether
\* the wrapped function ran and what it returned.
NoRet == [op |-> "none", result |-> NoValue, err |-> NoValue,
          fnResult |-> NoValue, fnErr |-> NoValue, ran |-> 0,
          spanType |-> "", argCtx |-> Background, outCtx |-> Background,
          span |-> 0]

\* A Span that ignores the enabled flag.
spanEnabledAlways(e) == TRUE

\* simforge.go Client.Span 139: if !c.enabled { return fn(ctx) }
spanEnabled(e) == e

\* defer func() { recover() }() -- simforge.go 178 (Span's assembly closure),
\* 357 and 362 (End), http.go 106-108 (the sending goroutine): a panic below
\* it does not reach the caller.
deferRecover == TRUE

\* A Span that turns a fault of its own into an error for the caller.
spanReturnFaulty(result, fnErr, fault) ==
    IF fault THEN [result |-> NoValue, err |-> "simforge: internal error"]
    ELSE [result |-> result, err |-> fnErr]

\* simforge.go Client.Span 177-178, 220: the assembly closure recovers its
\* own panic, then `return result, fnErr`.
spanReturn(result, fnErr, fault) == [result |-> result, err |-> fnErr]


\* pc[t] of a thread blocked in the select of flush (http.go 121-124)
InFlush == -1

\* No flush yet.  pre: the sends that were in flight when the current (or
\* last) flush was called; by and left record how the last flush returned
\* ("done", "timeout") and which of its pre sends were still running then.
NoFlush == [pre |-> {}, by |-> "none", left |-> {}]

\* no direct call of request or serializeValue has been made
NoCall == [fn |-> "none"]

\* simforge.go NewClient leaves the client enabled or disabled; nothing has
\* been minted, started or stored.
Init ==
    /\ enabled \in BOOLEAN
    /\ nextID = 0
    /\ arrays = << >>
    /\ ctx = [t \in Threads |-> Background]
    /\ frames = [t \in Threads |-> << >>]
    /\ spans = << >>
    /\ pc = [t \in Threads |-> 0]
    /\ ret = NoRet
    /\ created = {}
    /\ handed = << >>
    /\ inflight = << >>
    /\ wg = 0
    /\ posted = 0
    /\ states = << >>
    /\ nsets = 0
    /\ crashed = FALSE
    /\ fl = [t \in Threads |-> NoFlush]
    /\ call = NoCall

\* Client.Span up to and including the call of fn (simforge.go 138-171).
\* The call either returns at once (invalid type) or leaves a frame on the
\* thread's stack while fn runs.
SpanCall(t, opt) ==
    /\ pc[t] = 0
    /\ Len(frames[t]) < MaxDepth
    /\ IF ~spanEnabled(enabled)
       THEN \* return fn(ctx)
            /\ frames' = [frames EXCEPT ![t] = Append(@,
                   [callerCtx |-> ctx[t], fnCtx |-> ctx[t], traceID |-> 0,
                    spanID |-> 0, parentSpanID |-> 0,
                    spanType |-> cfgSpanType(opt)])]
            /\ UNCHANGED <<nextID, arrays, ctx, ret, created>>
       ELSE IF cfgSpanType(opt) \notin validSpanTypes
       THEN \* return nil, fmt.Errorf("simforge: invalid span type ...")
            /\ ret' = [NoRet EXCEPT !.op = "Span", !.err = InvalidTypeErr,
                                    !.spanType = cfgSpanType(opt),
                                    !.argCtx = ctx[t]]
            /\ UNCHANGED <<nextID, arrays, ctx, frames, created>>
       ELSE /\ nextID + 2 <= MaxIDs
            /\ LET parent == currentSpan(arrays, ctx[t])
                   ids    == chooseIDs(parent, nextID)
                   pushed == withSpanContext(arrays, ctx[t], ids.traceID, ids.spanID)
               IN  /\ nextID' = nextID + 2
                   /\ arrays' = pushed.arrays
                   /\ ctx' = [ctx EXCEPT ![t] = pushed.ctx]
                   /\ frames' = [frames EXCEPT ![t] = Append(@,
                          [callerCtx |-> ctx[t], fnCtx |-> pushed.ctx,
                           traceID |-> ids.traceID, spanID |-> ids.spanID,
                           parentSpanID |-> ids.parentSpanID,
                           spanType |-> cfgSpanType(opt)])]
                   /\ created' = created \cup
                          {[via |-> "Span", parent |-> parent,
                            traceID |-> ids.traceID, spanID |-> ids.spanID,
                            parentSpanID |-> ids.parentSpanID,
                            inCtx |-> ctx[t], outCtx |-> pushed.ctx,
                            inStack |-> stackOf(arrays, ctx[t])]}
                   /\ UNCHANGED ret
    /\ UNCHANGED <<enabled, fl, call, spans, pc, handed, inflight, wg, posted, states,
                   nsets, crashed>>

\* fn returns (result, fnErr); Client.Span builds and sends the record and
\* returns to its caller (simforge.go 171-221; 140 when disabled).
SpanReturn(t, result, fnErr) ==
    /\ pc[t] = 0
    /\ frames[t] # << >>
    /\ LET f     == frames[t][Len(frames[t])]
           instr == spanEnabled(enabled)
           fault == instr /\ fnErr # NoValue /\ ErrorPanics(fnErr)
           out   == IF instr THEN spanReturn(result, fnErr, fault)
                    ELSE [result |-> result, err |-> fnErr]
       IN  /\ frames' = [frames EXCEPT ![t] = SubSeq(@, 1, Len(@) - 1)]
           /\ ctx' = [ctx EXCEPT ![t] = f.callerCtx]
           /\ ret' = [NoRet EXCEPT !.op = "Span",
                          !.result = out.result, !.err = out.err,
                          !.fnResult = result, !.fnErr = fnErr, !.ran = 1,
                          !.spanType = f.spanType, !.argCtx = f.callerCtx]
           /\ crashed' = (crashed \/ (fault /\ ~deferRecover))
           /\ IF instr /\ ~fault
              THEN sendExternalSpan(Payload(f.traceID, f.spanID, f.parentSpanID,
                       f.spanType, NoInput, result,
                       IF fnErr # NoValue THEN ErrorText(fnErr) ELSE NoValue,
                       NilMap))
              ELSE UNCHANGED <<handed, inflight, wg>>
    /\ UNCHANGED <<enabled, fl, call, nextID, arrays, spans, pc, created, posted, states,
                   nsets>>


\* &ActiveSpan{}: the zero value returned by a disabled client.  done is the
\* state of s.once; faulted and noopEnd record what End calls did (the record
\* assembly panicked; End returned at the nil-client check).
ZeroSpan ==
    [client |-> FALSE, traceID |-> 0, spanID |-> 0, parentSpanID |-> 0,
     spanType |-> "", input |-> NoInput, output |-> NoValue,
     spanErr |-> NoValue, metadata |-> NilMap, done |-> FALSE,
     faulted |-> FALSE, noopEnd |-> FALSE, cfgMetadata |-> NilMap]

\* A Start that ignores the enabled flag.
startEnabledAlways(e) == TRUE

\* simforge.go Client.Start 229: if !c.enabled { return ctx, &ActiveSpan{} }
startEnabled(e) == e

\* Client.Start (simforge.go 228-266) with a span type option and the map
\* given to WithMetadata (NilMap: no such option).  rebind: whether the
\* caller stores the returned context in its ctx variable (ctx, span := ...)
\* or drops it (_, span := ...).
Start(t, opt, metadata, rebind) ==
    /\ pc[t] = 0
    /\ Len(spans) < MaxHandles
    /\ IF ~startEnabled(enabled)
       THEN /\ spans' = Append(spans, ZeroSpan)
            /\ ret' = [NoRet EXCEPT !.op = "Start",
                          !.argCtx = ctx[t], !.outCtx = ctx[t],
                          !.span = Len(spans) + 1]
            /\ UNCHANGED <<nextID, arrays, ctx, created>>
       ELSE /\ nextID + 2 <= MaxIDs
            /\ LET parent == currentSpan(arrays, ctx[t])
                   ids    == chooseIDs(parent, nextID)
                   pushed == withSpanContext(arrays, ctx[t], ids.traceID, ids.spanID)
               IN  /\ nextID' = nextID + 2
                   /\ arrays' = pushed.arrays
                   /\ spans' = Append(spans,
                          [ZeroSpan EXCEPT !.client = TRUE,
                               !.traceID = ids.traceID, !.spanID = ids.spanID,
                               !.parentSpanID = ids.parentSpanID,
                               !.spanType = cfgSpanType(opt),
                               !.cfgMetadata = metadata])
                   /\ ret' = [NoRet EXCEPT !.op = "Start",
                                 !.argCtx = ctx[t], !.outCtx = pushed.ctx,
                                 !.span = Len(spans) + 1]
                   /\ ctx' = [ctx EXCEPT ![t] = IF rebind THEN pushed.ctx ELSE @]
                   /\ created' = created \cup
                          {[via |-> "Start", parent |-> parent,
                            traceID |-> ids.traceID, spanID |-> ids.spanID,
                            parentSpanID |-> ids.parentSpanID,
                            inCtx |-> ctx[t], outCtx |-> pushed.ctx,
                            inStack |-> stackOf(arrays, ctx[t])]}
    /\ UNCHANGED <<enabled, fl, call, frames, pc, handed, inflight, wg, posted, states,
                   nsets, crashed>>

\* Client.Start without WithMetadata
StartCall(t, opt, rebind) == Start(t, opt, NilMap, rebind)

Handles == 1..Len(spans)

\* One more setter call of the caller, while the run's budget lasts.
SetterCall == nsets < MaxSets /\ nsets' = nsets + 1

\* ActiveSpan.SetInput (simforge.go 318-325)
SetInput(t, h, args) ==
    /\ pc[t] = 0
    /\ h \in Handles
    /\ spans' = [spans EXCEPT ![h].input =
                    IF Len(args) = 1 THEN [kind |-> "value", v |-> args]
                    ELSE [kind |-> "slice", v |-> args]]
    /\ UNCHANGED <<enabled, fl, call, nextID, arrays, ctx, frames, pc, ret, created,
                   handed, inflight, wg, posted, states, crashed>>

\* ActiveSpan.SetOutput (simforge.go 328-331)
SetOutput(t, h, output) ==
    /\ pc[t] = 0
    /\ h \in Handles
    /\ spans' = [spans EXCEPT ![h].output = output]
    /\ UNCHANGED <<enabled, fl, call, nextID, arrays, ctx, frames, pc, ret, created,
                   handed, inflight, wg, posted, states, crashed>>

\* ActiveSpan.SetError (simforge.go 334-337)
SetError(t, h, err) ==
    /\ pc[t] = 0
    /\ h \in Handles
    /\ spans' = [spans EXCEPT ![h].spanErr = err]
    /\ UNCHANGED <<enabled, fl, call, nextID, arrays, ctx, frames, pc, ret, created,
                   handed, inflight, wg, posted, states, crashed>>

\* A merge that keeps the value a key already has.
mergeIntoKeep(dst, src) ==
    [k \in DOMAIN dst \cup DOMAIN src |->
        IF k \in DOMAIN dst THEN dst[k] ELSE src[k]]

\* for k, v := range src { dst[k] = v }
mergeInto(dst, src) ==
    [k \in DOMAIN dst \cup DOMAIN src |->
        IF k \in DOMAIN src THEN src[k] ELSE dst[k]]

\* ActiveSpan.SetMetadata (simforge.go 341-352)
SetMetadata(t, h, metadata) ==
    /\ pc[t] = 0
    /\ h \in Handles
    /\ IF metadata.isNil
       THEN UNCHANGED spans
       ELSE spans' = [spans EXCEPT ![h].metadata =
                [isNil |-> FALSE, kv |-> mergeInto(@.kv, metadata.kv)]]
    /\ UNCHANGED <<enabled, fl, call, nextID, arrays, ctx, frames, pc, ret, created,
                   handed, inflight, wg, posted, states, crashed>>


\* A Once that runs its function on every call.
onceDoAlways(done) == TRUE

\* sync.Once.Do: the function runs only on the first call (simforge.go 361)
onceDo(done) == ~done

\* ActiveSpan.End 382-391: merged metadata, runtime wins; key absent when
\* both maps are nil
endMetadata(cfgMeta, runtimeMeta) ==
    IF cfgMeta.isNil /\ runtimeMeta.isNil THEN NilMap
    ELSE [isNil |-> FALSE, kv |-> mergeInto(cfgMeta.kv, runtimeMeta.kv)]

\* ActiveSpan.End 356-360: the deferred recover and the nil-client check.
\* h = 0 is a nil *ActiveSpan: s.client panics and the panic is recovered.
EndEnter(t, h) ==
    /\ pc[t] = 0
    /\ h \in 0..Len(spans)
    /\ IF h = 0
       THEN /\ crashed' = (crashed \/ ~deferRecover)
            /\ UNCHANGED <<pc, spans>>
       ELSE IF ~spans[h].client
       THEN /\ spans' = [spans EXCEPT ![h].noopEnd = TRUE]
            /\ UNCHANGED <<pc, crashed>>
       ELSE /\ pc' = [pc EXCEPT ![t] = h]
            /\ UNCHANGED <<spans, crashed>>
    /\ UNCHANGED <<enabled, fl, call, nextID, arrays, ctx, frames, ret, created,
                   handed, inflight, wg, posted, states, nsets>>

\* ActiveSpan.End 361-411: s.once.Do(func() { build the record, send it })
EndOnce(t) ==
    /\ pc[t] > 0
    /\ LET h     == pc[t]
           sp    == spans[h]
           fault == sp.spanErr # NoValue /\ ErrorPanics(sp.spanErr)
       IN  /\ pc' = [pc EXCEPT ![t] = 0]
           /\ IF onceDo(sp.done)
              THEN /\ spans' = [spans EXCEPT ![h].done = TRUE,
                                            ![h].faulted = fault]
                   /\ crashed' = (crashed \/ (fault /\ ~deferRecover))
                   /\ IF fault
                      THEN UNCHANGED <<handed, inflight, wg>>
                      ELSE sendExternalSpan(Payload(sp.traceID, sp.spanID,
                               sp.parentSpanID, sp.spanType, sp.input,
                               sp.output,
                               IF sp.spanErr # NoValue
                                   THEN ErrorText(sp.spanErr) ELSE NoValue,
                               endMetadata(sp.cfgMetadata, sp.metadata)))
              ELSE UNCHANGED <<spans, handed, inflight, wg, crashed>>
    /\ UNCHANGED <<enabled, fl, call, nextID, arrays, ctx, frames, ret, created, posted,
                   states, nsets>>

\* json.Marshal rejects the payload (a channel or function inside it)
Unmarshalable(p) == p.output = "chan"

\* json.Marshal panics (a MarshalJSON method inside the payload panics)
MarshalPanics(p) == p.output = "panicsJSON"

\* ------------------------------------------------------------------- request
\* What one HTTP attempt yields: client.Do fails (do = "err"), or a response
\* with a status code and a body.  A body is described by what request looks
\* at: whether it parses as a JSON object, and what its "error" and "url"
\* members are ("absent", "string", or "other": a number, null, an object).
TransportFailure == [do |-> "err", status |-> 0, body |-> "-"]
Bodies ==
    {"okObj", "errStr", "errStrUrl", "errOther", "errStrUrlOther", "notObject"}
bodyIsObject(b) == b # "notObject"
bodyErrorField(b) ==
    CASE b \in {"errStr", "errStrUrl", "errStrUrlOther"} -> "string"
      [] b = "errOther" -> "other"
      [] OTHER -> "absent"
bodyUrlField(b) ==
    CASE b = "errStrUrl" -> "string"
      [] b = "errStrUrlOther" -> "other"
      [] OTHER -> "absent"

\* the responses a server (or the network) may give to one attempt
Responses ==
    {TransportFailure}
    \cup {[do |-> "ok", status |-> st, body |-> "notObject"] : st \in {300, 500}}
    \cup {[do |-> "ok", status |-> 200, body |-> b] : b \in Bodies}
    \cup {[do |-> "ok", status |-> 299, body |-> b] : b \in {"okObj", "errStr"}}

\* http.go 34: the default attempt count of request
DefaultMaxRetries == 1

\* error values of request; NoErr is nil
NoErr == [kind |-> "nil"]
MarshalErr == [kind |-> "marshal"]
NewRequestErr == [kind |-> "newRequest"]
TransportErr == [kind |-> "transport"]
HTTPErr(resp) == [kind |-> "http", status |-> resp.status, body |-> resp.body]
LogicalErr(withHint) == [kind |-> "logical", hint |-> withHint]

\* http.go 73: resp.StatusCode < 200 || resp.StatusCode >= 300 is a failure
is2xx(status) == ~(status < 200 \/ status >= 300)

\* An error check that takes any "error" member for an error.
bodyHasErrorAny(b) == bodyIsObject(b) /\ bodyErrorField(b) # "absent"

\* http.go 79-81: json.Unmarshal into a map succeeds and result["error"]
\* is a string
bodyHasError(b) == bodyIsObject(b) /\ bodyErrorField(b) = "string"

\* A classification that retries after a logical error too.
classifyRetryLogical(resp) ==
    IF resp.do = "err" \/ ~is2xx(resp.status) THEN "retry"
    ELSE IF bodyHasError(resp.body) THEN "retry"
    ELSE "returnNil"

\* http.go 64-89: what the loop body does with the outcome of one attempt:
\* continue (65-68, 73-76), return an error (81-86) or return nil (89)
classify(resp) ==
    IF resp.do = "err" \/ ~is2xx(resp.status) THEN "retry"
    ELSE IF bodyHasError(resp.body) THEN "returnErr"
    ELSE "returnNil"

\* the error an attempt leaves behind
errorOf(resp) ==
    IF resp.do = "err" THEN TransportErr
    ELSE IF ~is2xx(resp.status) THEN HTTPErr(resp)
    ELSE LogicalErr(bodyUrlField(resp.body) = "string")

\* A loop that remembers the first error instead of the last.
keepErrFirst(lastErr, err) == IF lastErr = NoErr THEN err ELSE lastErr

\* http.go 66, 74: lastErr = err
keepErr(lastErr, err) == err

\* A loop condition that is off by one.
moreAttemptsInclusive(attempt, maxRetries) == attempt <= maxRetries

\* http.go 47: attempt < cfg.maxRetries
moreAttempts(attempt, maxRetries) == attempt < maxRetries

\* http.go 47-92: the retry loop from iteration `attempt` on.  script[k] is
\* what the k-th attempt yields; events is the sequence of sleeps and POSTs
\* made so far.  A loop that runs beyond the script sees transport failures.
RECURSIVE requestLoop(_, _, _, _, _, _)
requestLoop(attempt, maxRetries, urlOK, script, lastErr, events) ==
    IF ~moreAttempts(attempt, maxRetries)
    THEN [err |-> lastErr, events |-> events, panicked |-> FALSE]
    ELSE LET slept == IF attempt > 0 THEN Append(events, "sleep") ELSE events
             resp  == IF attempt + 1 \in DOMAIN script
                      THEN script[attempt + 1] ELSE TransportFailure
             sent  == Append(slept, "post")
         IN  IF ~urlOK
             THEN [err |-> NewRequestErr, events |-> slept, panicked |-> FALSE]
             ELSE CASE classify(resp) = "retry" ->
                         requestLoop(attempt + 1, maxRetries, urlOK, script,
                                     keepErr(lastErr, errorOf(resp)), sent)
                    [] classify(resp) = "returnErr" ->
                         [err |-> errorOf(resp), events |-> sent,
                          panicked |-> FALSE]
                    [] OTHER ->
                         [err |-> NoErr, events |-> sent, panicked |-> FALSE]

\* http.go 31-93 httpClient.request: marshal the payload (41-44), then loop.
\* urlOK: http.NewRequest accepts h.serviceURL + endpoint.
request(payload, maxRetries, urlOK, script) ==
    IF MarshalPanics(payload)
    THEN [err |-> NoErr, events |-> << >>, panicked |-> TRUE]
    ELSE IF Unmarshalable(payload)
    THEN [err |-> MarshalErr, events |-> << >>, panicked |-> FALSE]
    ELSE requestLoop(0, maxRetries, urlOK, script, NoErr, << >>)

\* the number of HTTP requests in a sequence of events
posts(events) == Cardinality({k \in DOMAIN events : events[k] = "post"})

\* A unit that skips wg.Done when the request panicked (Done not deferred).
unitDoneUnlessPanic(n, panicked) == IF panicked THEN n ELSE n - 1

\* http.go 105: defer h.wg.Done() -- runs on every path out of the goroutine
unitDone(n, panicked) == n - 1

\* The goroutine of sendExternalSpan (http.go 104-110): request with the
\* default single attempt, recover, wg.Done.  resp is what the attempt
\* yields if it is made; the error request returns is discarded.
UnitFinish(i, resp) ==
    /\ i \in DOMAIN inflight
    /\ \E r \in {request(inflight[i], DefaultMaxRetries, TRUE, <<resp>>)} :
           /\ posted' = posted + posts(r.events)
           /\ crashed' = (crashed \/ (r.panicked /\ ~deferRecover))
           /\ wg' = unitDone(wg, r.panicked)
    /\ inflight' = [j \in DOMAIN inflight \ {i} |-> inflight[j]]
    /\ UNCHANGED <<enabled, fl, call, nextID, arrays, ctx, frames, spans, pc,
                   ret, created, handed, states, nsets>>

\* A direct call of httpClient.sendExternalSpan (http.go 96-111) with a
\* payload whose output member is out, as the tests of the client make it.
SendExternalSpanCall(t, out) ==
    /\ pc[t] = 0
    /\ Len(handed) < MaxSends
    /\ sendExternalSpan(Payload(0, 0, 0, DefaultSpanType, NoInput, out,
                                NoValue, NilMap))
    /\ UNCHANGED <<enabled, fl, call, nextID, arrays, ctx, frames, spans, pc,
                   ret, created, posted, states, nsets, crashed>>

\* httpClient.flush up to its select (http.go 114-121): the waiter goroutine
\* is started and the caller blocks.
FlushCall(t) ==
    /\ pc[t] = 0
    /\ pc' = [pc EXCEPT ![t] = InFlush]
    /\ fl' = [fl EXCEPT ![t].pre = DOMAIN inflight]
    /\ UNCHANGED <<enabled, call, nextID, arrays, ctx, frames, spans, ret,
                   created, handed, inflight, wg, posted, states, nsets,
                   crashed>>

\* A Wait that returns while one unit is still running.
waitDoneEarly(n) == n <= 1

\* http.go 117: h.wg.Wait() returns when the counter is zero
waitDone(n) == n = 0

\* flush returns through `case <-done` (http.go 116-119, 122): the waiter
\* goroutine saw the counter at zero and closed done.
FlushReturnDone(t) ==
    /\ pc[t] = InFlush
    /\ waitDone(wg)
    /\ pc' = [pc EXCEPT ![t] = 0]
    /\ fl' = [fl EXCEPT ![t].by = "done",
                        ![t].left = fl[t].pre \cap DOMAIN inflight]
    /\ UNCHANGED <<enabled, call, nextID, arrays, ctx, frames, spans, ret,
                   created, handed, inflight, wg, posted, states, nsets,
                   crashed>>

\* A timeout that abandons the sends by dropping them.
afterTimeoutCancel(units) == << >>

\* http.go 123: `case <-time.After(timeout):` touches no unit
afterTimeout(units) == units

\* flush returns through `case <-time.After(timeout)` (http.go 123): the
\* timeout elapsed first.
FlushReturnTimeout(t) ==
    /\ pc[t] = InFlush
    /\ pc' = [pc EXCEPT ![t] = 0]
    /\ fl' = [fl EXCEPT ![t].by = "timeout",
                        ![t].left = fl[t].pre \cap DOMAIN inflight]
    /\ inflight' = afterTimeout(inflight)
    /\ UNCHANGED <<enabled, call, nextID, arrays, ctx, frames, spans, ret,
                   created, handed, wg, posted, states, nsets, crashed>>

\* A goroutine starts (or user code goes on) with a context of its choice:
\* a fresh context.Background() or a context another thread holds.
Adopt(t, c) ==
    /\ pc[t] = 0
    /\ frames[t] = << >>
    /\ c # ctx[t]
    /\ ctx' = [ctx EXCEPT ![t] = c]
    /\ UNCHANGED <<enabled, fl, call, nextID, arrays, frames, spans, pc, ret, created,
                   handed, inflight, wg, posted, states, nsets, crashed>>

\* A store that never registers a new trace state.
createTraceStateNever(st, traceID) == st

\* A create that registers a fresh state even when the id has one.
createTraceStateFresh(st, traceID, now) ==
    [k \in DOMAIN st \cup {traceID} |->
        IF k = traceID
        THEN [TraceID |-> traceID, SessionID |-> "", Metadata |-> NilMap,
              Contexts |-> << >>, StartedAt |-> now]
        ELSE st[k]]

\* span_context.go createTraceState 67-79 at time now: the store after the
\* call; the entry of traceID in it is what the call returns
createTraceStateAt(st, traceID, now) ==
    IF traceID \in DOMAIN st THEN st
    ELSE st @@ (traceID :> [TraceID |-> traceID, SessionID |-> "",
                            Metadata |-> NilMap, Contexts |-> << >>,
                            StartedAt |-> now])

\* span_context.go createTraceState, where the time of the call is of no
\* interest
createTraceState(st, traceID) == createTraceStateAt(st, traceID, 0)

\* span_context.go deleteTraceState 82-86
deleteTraceState(st, traceID) == [k \in DOMAIN st \ {traceID} |-> st[k]]

\* GetCurrentTrace(ctx).SetSessionID(sessionID)  (span_context.go 104-116,
\* 161-167): a no-op outside a span, else create the state on demand and
\* store the session id.
TraceSetSessionID(t, sessionID) ==
    /\ pc[t] = 0
    /\ LET entry == currentSpan(arrays, ctx[t])
       IN  IF entry = NilEntry \/ entry.traceID = 0
           THEN UNCHANGED states
           ELSE states' = [createTraceState(states, entry.traceID)
                              EXCEPT ![entry.traceID].SessionID = sessionID]
    /\ UNCHANGED <<enabled, fl, call, nextID, arrays, ctx, frames, spans, pc, ret,
                   created, handed, inflight, wg, posted, crashed>>

Contexts == {Background} \cup {ctx[u] : u \in Threads}

\* What the single attempt of a background send meets in Spec, SpecSpan and
\* SpecActive, where nothing depends on it: a plain success.  SpecDeliver
\* runs the sends against every response.
UnitResponses == {[do |-> "ok", status |-> 200, body |-> "okObj"]}

\* ---------------------------------------------------------- specifications
\* Spec: two goroutines share the client, the ActiveSpan handles and the
\* contexts.  The data they pass is kept to the values that steer the code:
\* a result, an error whose Error() panics.
CoreReturns == {<<"ok", "nil">>, <<"nil", "errPanics">>}

Next ==
    \/ \E t \in Threads : SpanCall(t, NoOpt)
    \/ \E t \in Threads, r \in CoreReturns : SpanReturn(t, r[1], r[2])
    \/ \E t \in Threads, rebind \in BOOLEAN : StartCall(t, NoOpt, rebind)
    \/ \E t \in Threads, h \in Handles :
          SetError(t, h, "errPanics") /\ UNCHANGED nsets
    \/ \E t \in Threads, h \in 0..Len(spans) : EndEnter(t, h)
    \/ \E t \in Threads : EndOnce(t)
    \/ \E t \in Threads, c \in Contexts : Adopt(t, c)

Spec == Init /\ [][Next]_vars

\* SpecSpan: one goroutine uses the closure style with every span type and
\* every return of the wrapped function; the background sends run.
NextSpan ==
    \/ \E opt \in TypeOptions : SpanCall(1, opt)
    \/ \E r \in Returns : SpanReturn(1, r[1], r[2])
    \/ \E i \in DOMAIN inflight, resp \in UnitResponses :
          UnitFinish(i, resp)

SpecSpan == Init /\ [][NextSpan]_vars

\* SpecActive: one goroutine uses the Start/End style with every setter
\* argument on at most MaxActive spans; the background sends run.
ActiveTypeOptions == {NoOpt, "function", "bogus"}

NextActive ==
    \/ \E opt \in ActiveTypeOptions :
          Len(spans) < MaxActive /\ StartCall(1, opt, TRUE)
    \/ \E h \in Handles, a \in InputArgs :
          SetterCall /\ SetInput(1, h, a)
    \/ \E h \in Handles, o \in Outputs :
          SetterCall /\ SetOutput(1, h, o)
    \/ \E h \in Handles, e \in Errors :
          SetterCall /\ SetError(1, h, e)
    \/ \E h \in Handles, m \in MetaArgs :
          SetterCall /\ SetMetadata(1, h, m)
    \/ \E h \in 0..Len(spans) : EndEnter(1, h)
    \/ EndOnce(1)
    \/ \E i \in DOMAIN inflight, resp \in UnitResponses :
          UnitFinish(i, resp)
    \/ SetterCall /\ TraceSetSessionID(1, "s1")

SpecActive == Init /\ [][NextActive]_vars

\* SpecDeliver: two goroutines hand payloads straight to sendExternalSpan,
\* the first one also calls flush; every background send meets a transport
\* failure, a server error, a success or a logical error.  A send always
\* comes to an end (its single attempt is cut off by the 30 s timeout of
\* http.go 109), hence the fairness of UnitFinish.
SendOutputs == {"ok", "chan", "panicsJSON"}

UnitOutcomes ==
    {TransportFailure,
     [do |-> "ok", status |-> 500, body |-> "notObject"],
     [do |-> "ok", status |-> 200, body |-> "okObj"],
     [do |-> "ok", status |-> 200, body |-> "errStr"]}

NextDeliver ==
    \/ \E t \in Threads, out \in SendOutputs : SendExternalSpanCall(t, out)
    \/ \E i \in DOMAIN inflight, resp \in UnitOutcomes : UnitFinish(i, resp)
    \/ FlushCall(1)
    \/ FlushReturnDone(1)
    \/ FlushReturnTimeout(1)

SpecDeliver ==
    /\ Init
    /\ [][NextDeliver]_vars
    /\ \A i \in 1..MaxSends :
          WF_vars(\E resp \in UnitOutcomes : UnitFinish(i, resp))


\* ------------------------------------------------- request as a function
\* the payloads request is called with: one that marshals, one json.Marshal
\* rejects and one whose MarshalJSON panics
RequestPayloads ==
    {Payload(0, 0, 0, DefaultSpanType, NoInput, out, NoValue, NilMap) :
         out \in SendOutputs}

\* the calls of request: a payload, the attempt count an option sets
\* (cfg.maxRetries, http.go 34-39), whether http.NewRequest accepts the URL,
\* and the response each attempt would get
RequestCalls(n) ==
    {[fn |-> "request", payload |-> p, maxRetries |-> n, urlOK |-> u,
      script |-> s, done |-> FALSE, result |-> NoCall] :
         p \in RequestPayloads, u \in BOOLEAN, s \in [1..n -> Responses]}

InitRequest ==
    /\ enabled = TRUE
    /\ nextID = 0
    /\ arrays = << >>
    /\ ctx = [t \in Threads |-> Background]
    /\ frames = [t \in Threads |-> << >>]
    /\ spans = << >>
    /\ pc = [t \in Threads |-> 0]
    /\ ret = NoRet
    /\ created = {}
    /\ handed = << >>
    /\ inflight = << >>
    /\ wg = 0
    /\ posted = 0
    /\ states = << >>
    /\ nsets = 0
    /\ crashed = FALSE
    /\ fl = [t \in Threads |-> NoFlush]
    /\ \E n \in -1..MaxAttempts : call \in RequestCalls(n)

\* One synchronous call of httpClient.request (http.go 31-93), from entry to
\* return.
RequestCall ==
    /\ call.fn = "request"
    /\ ~call.done
    /\ call' = [call EXCEPT
                    !.done = TRUE,
                    !.result = request(call.payload, call.maxRetries,
                                       call.urlOK, call.script)]
    /\ UNCHANGED <<enabled, fl, nextID, arrays, ctx, frames, spans, pc, ret,
                   created, handed, inflight, wg, posted, states, nsets,
                   crashed>>

NextRequest == RequestCall

SpecRequest == InitRequest /\ [][NextRequest]_vars


\* -------------------------------------------------------------- serializer
\* A Go value as serializeValue sees it:
\*   type   the dynamic type as the type switch matches it: "nil" (the nil
\*          interface), a builtin scalar type, "time.Time", or "other"
\*   kind   its reflect.Kind
\*   val    the number a scalar holds
\*   mj, er, st  how the type's MarshalJSON, Error and String methods behave,
\*          "none" when the type does not have the method
\*   isNil  a nil pointer, map, slice, func or chan
\*   names  the fields of a struct, or the keys of a map in iteration order
\*   kids   the field values, map values, elements, or the pointer's referent
ScalarTypes ==
    {"string", "bool", "int", "int8", "int16", "int32", "int64", "uint",
     "uint8", "uint16", "uint32", "uint64", "float32", "float64"}

Value(type, kind, val, mj, er, st, isNil, names, kids) ==
    [type |-> type, kind |-> kind, val |-> val, mj |-> mj, er |-> er,
     st |-> st, isNil |-> isNil, names |-> names, kids |-> kids]

\* the nil interface value
NilValue == Value("nil", "nil", 0, "none", "none", "none", TRUE, << >>, << >>)

\* a value of a builtin scalar type
ScalarValue(type, val) ==
    Value(type, type, val, "none", "none", "none", FALSE, << >>, << >>)

\* a time.Time; the type has MarshalJSON and String methods
TimeValue ==
    Value("time.Time", "struct", 0, "ok", "none", "ok", FALSE, << >>, << >>)

\* a struct field: declared name, whether it is exported, and its json tag
\* as a sequence of characters (empty: no tag)
Field(name, exported, tag) ==
    [name |-> name, exported |-> exported, tag |-> tag]

\* a map key: name is the text fmt.Sprintf("%v", key) gives
Key(text) == [name |-> text, exported |-> TRUE, tag |-> << >>]

\* the JSON-safe trees serializeValue returns
Null == [t |-> "nil"]
Number(type, val) == [t |-> type, val |-> val]
Text(from) == [t |-> "text", from |-> from]
Parsed == [t |-> "parsed"]
List(items) == [t |-> "list", items |-> items]
Mapping(members) == [t |-> "map", members |-> members]

\* a call that returned tree, and a call that panicked
Returned(tree) == [fault |-> FALSE, tree |-> tree]
Panicked == [fault |-> TRUE, tree |-> Null]

\* Scalar cases that return every value in its own type.
widenNone(type) == type

\* part_003 18-45: the result type of each scalar case
widen(type) ==
    CASE type \in {"int8", "int16", "int32"} -> "int"
      [] type \in {"uint8", "uint16", "uint32"} -> "uint"
      [] type = "float32" -> "float64"
      [] OTHER -> type

\* Calling a method through the interface panics when the method itself
\* panics, and when it is declared on T and called on a nil *T ("valueRecv":
\* the runtime dereferences the nil pointer to make the receiver).
methodPanics(v, how) ==
    how = "panics" \/ (how = "valueRecv" /\ v.kind = "ptr" /\ v.isNil)

\* part_003 129-139 splitTag: the parts of a tag between commas
RECURSIVE splitTagFrom(_, _, _)
splitTagFrom(tag, i, part) ==
    IF i > Len(tag) THEN <<part>>
    ELSE IF tag[i] = "," THEN <<part>> \o splitTagFrom(tag, i + 1, << >>)
    ELSE splitTagFrom(tag, i + 1, Append(part, tag[i]))

splitTag(tag) == splitTagFrom(tag, 1, << >>)

\* part_003 107-121: whether a struct field is emitted, and the key it is
\* emitted under
fieldEmitted(f) ==
    /\ f.exported
    /\ ~(f.tag # << >> /\ splitTag(f.tag)[1] = <<"-">>)

fieldKey(f) ==
    IF f.tag # << >> /\ splitTag(f.tag)[1] # << >>
    THEN splitTag(f.tag)[1]
    ELSE f.name

\* result[key] = tree on a Go map: a later write of the same key replaces
\* the earlier one
put(members, key, tree) ==
    [k \in DOMAIN members \cup {key} |->
         IF k = key THEN tree ELSE members[k]]

RECURSIVE serializeValue(_)
RECURSIVE serializeEntries(_, _, _, _)

\* The loops of serializeMap (part_003 87-90) and serializeStruct (105-124)
\* from entry i on: serialize the value and store it under its key.
serializeEntries(v, i, members, isStruct) ==
    IF i > Len(v.kids) THEN Returned(Mapping(members))
    ELSE LET key == IF isStruct THEN fieldKey(v.names[i])
                    ELSE v.names[i].name
         IN  IF isStruct /\ ~fieldEmitted(v.names[i])
             THEN serializeEntries(v, i + 1, members, isStruct)
             ELSE LET r == serializeValue(v.kids[i])
                  IN  IF r.fault THEN Panicked
                      ELSE serializeEntries(v, i + 1,
                                            put(members, key, r.tree),
                                            isStruct)

\* part_003 84-92
serializeMap(v) == serializeEntries(v, 1, << >>, FALSE)

\* part_003 102-126
serializeStruct(v) == serializeEntries(v, 1, << >>, TRUE)

\* A serializeSlice that renders the elements as text instead of
\* serializing them.
serializeSliceShallow(v) ==
    Returned(List([i \in 1..Len(v.kids) |-> Text("Sprintf")]))

\* part_003 94-100
serializeSlice(v) ==
    LET rs == [i \in 1..Len(v.kids) |-> serializeValue(v.kids[i])]
    IN  IF \E i \in DOMAIN rs : rs[i].fault THEN Panicked
        ELSE Returned(List([i \in DOMAIN rs |-> rs[i].tree]))

\* A type switch that tries fmt.Stringer before error.
typeSwitchStringerFirst(v) ==
    IF v.type = "nil" THEN "nil"
    ELSE IF v.type \in ScalarTypes THEN "scalar"
    ELSE IF v.type = "time.Time" THEN "time"
    ELSE IF v.mj # "none" THEN "marshaler"
    ELSE IF v.st # "none" THEN "stringer"
    ELSE IF v.er # "none" THEN "error"
    ELSE "reflect"

\* part_003 13-63: the nil test and the case of the type switch that takes
\* the value; "reflect" when none does
typeSwitch(v) ==
    IF v.type = "nil" THEN "nil"
    ELSE IF v.type \in ScalarTypes THEN "scalar"
    ELSE IF v.type = "time.Time" THEN "time"
    ELSE IF v.mj # "none" THEN "marshaler"
    ELSE IF v.er # "none" THEN "error"
    ELSE IF v.st # "none" THEN "stringer"
    ELSE "reflect"

\* part_003 12-82
serializeValue(v) ==
    CASE typeSwitch(v) = "nil" -> Returned(Null)
      [] typeSwitch(v) = "scalar" -> Returned(Number(widen(v.type), v.val))
      [] typeSwitch(v) = "time" -> Returned(Text("time"))
      [] typeSwitch(v) = "marshaler" ->
             IF methodPanics(v, v.mj) THEN Panicked
             ELSE IF v.mj = "err" THEN Returned(Text("Sprintf"))
             ELSE IF v.mj = "bad" THEN Returned(Text("bytes"))
             ELSE Returned(Parsed)
      [] typeSwitch(v) = "error" ->
             IF methodPanics(v, v.er) THEN Panicked
             ELSE Returned(Text("Error"))
      [] typeSwitch(v) = "stringer" ->
             IF methodPanics(v, v.st) THEN Panicked
             ELSE Returned(Text("String"))
      [] OTHER ->
             CASE v.kind = "map" -> serializeMap(v)
               [] v.kind \in {"slice", "array"} -> serializeSlice(v)
               [] v.kind = "struct" -> serializeStruct(v)
               [] v.kind = "ptr" ->
                      IF v.isNil THEN Returned(Null)
                      ELSE serializeValue(v.kids[1])
               [] OTHER -> Returned(Text("Sprintf"))

\* the ways a MarshalJSON method ends (valid JSON, bytes that are not JSON,
\* an error, a panic) and the ways an Error or String method ends
MarshalHow == {"none", "ok", "bad", "err", "panics"}
TextHow == {"none", "ok", "panics"}

\* a value of a type the switch has no case for, without fields or elements
OtherValue(kind, mj, er, st, isNil) ==
    Value("other", kind, 0, mj, er, st, isNil, << >>, << >>)

\* values of named non-pointer types with every combination of methods: a
\* named integer, an empty struct, a func and a chan
CapableValues ==
    {OtherValue(k, mj, er, st, FALSE) :
         k \in {"int", "struct", "func", "chan"},
         mj \in MarshalHow, er \in TextHow, st \in TextHow}

\* nil pointers of types with every combination of methods, each method
\* declared on the pointer type or ("valueRecv") on the pointed-to type
NilPointers ==
    {OtherValue("ptr", mj, er, st, TRUE) :
         mj \in MarshalHow \cup {"valueRecv"},
         er \in TextHow \cup {"valueRecv"},
         st \in TextHow \cup {"valueRecv"}}

\* non-nil pointers to a scalar, of pointer types with every combination of
\* methods
CapablePointers ==
    {Value("other", "ptr", 0, mj, er, st, FALSE, << >>,
           <<ScalarValue("int8", 1)>>) :
         mj \in MarshalHow \cup {"valueRecv"},
         er \in TextHow \cup {"valueRecv"},
         st \in TextHow \cup {"valueRecv"}}

\* the values without fields or elements
Leaves ==
    {NilValue, TimeValue}
    \cup {ScalarValue(ty, n) : ty \in ScalarTypes, n \in {0, 1}}
    \cup CapableValues
    \cup NilPointers
    \cup {OtherValue(k, "none", "none", "none", nl) :
              k \in {"map", "slice"}, nl \in BOOLEAN}

\* the values put into containers
Elems ==
    {NilValue, ScalarValue("int8", 1), ScalarValue("string", 0), TimeValue,
     OtherValue("chan", "none", "none", "none", FALSE),
     OtherValue("struct", "none", "none", "ok", FALSE),
     OtherValue("ptr", "none", "none", "none", TRUE),
     OtherValue("ptr", "valueRecv", "none", "valueRecv", TRUE)}

\* the values put into struct fields: a non-zero one, a zero one and one
\* that makes serializeValue panic
FieldValues ==
    {ScalarValue("int8", 1), ScalarValue("string", 0),
     OtherValue("ptr", "valueRecv", "none", "valueRecv", TRUE)}

\* json tags of struct fields: none, "-", "x", ",o" and "-,"
Tags == {<< >>, <<"-">>, <<"x">>, <<",", "o">>, <<"-", ",">>}

\* the declared name of the i-th field of a struct
FieldName(i, exported) ==
    IF exported THEN <<"F", i>> ELSE <<"f", i>>

\* the texts of map keys; two keys of a map[any]any can have the same text
KeyTexts == {<<"a">>, <<"1">>}

Container(kind, names, kids) ==
    Value("other", kind, 0, "none", "none", "none", FALSE, names, kids)

\* pointers, and slices, arrays, maps and structs of n elements of elems
Pointers(elems) == {Container("ptr", << >>, <<e>>) : e \in elems}

Sequences(n, elems) ==
    {Container(k, << >>, kids) :
         k \in {"slice", "array"}, kids \in [1..n -> elems]}

Maps(n, elems) ==
    {Container("map", [i \in 1..n |-> Key(keys[i])], kids) :
         keys \in [1..n -> KeyTexts], kids \in [1..n -> elems]}

Structs(n, elems) ==
    {Container("struct",
               [i \in 1..n |-> Field(FieldName(i, ex[i]), ex[i], tags[i])],
               kids) :
         ex \in [1..n -> BOOLEAN], tags \in [1..n -> Tags],
         kids \in [1..n -> elems]}

\* containers nested d deep, each holding one element
RECURSIVE Nested(_)
Nested(d) ==
    IF d = 0 THEN Elems
    ELSE Pointers(Nested(d - 1)) \cup Sequences(1, Nested(d - 1))
         \cup Maps(1, Nested(d - 1)) \cup Structs(1, Nested(d - 1))

NewSerializeCall(v) ==
    [fn |-> "serializeValue", v |-> v, done |-> FALSE, result |-> NoCall]

InitSerialize ==
    /\ enabled = TRUE
    /\ nextID = 0
    /\ arrays = << >>
    /\ ctx = [t \in Threads |-> Background]
    /\ frames = [t \in Threads |-> << >>]
    /\ spans = << >>
    /\ pc = [t \in Threads |-> 0]
    /\ ret = NoRet
    /\ created = {}
    /\ handed = << >>
    /\ inflight = << >>
    /\ wg = 0
    /\ posted = 0
    /\ states = << >>
    /\ nsets = 0
    /\ crashed = FALSE
    /\ fl = [t \in Threads |-> NoFlush]
    /\ \/ \E v \in Leaves \cup CapablePointers : call = NewSerializeCall(v)
       \/ \E n \in 0..MaxKids :
              \E v \in Sequences(n, Elems) \cup Maps(n, Elems)
                           \cup Structs(n, FieldValues) :
                  call = NewSerializeCall(v)
       \/ \E d \in 1..MaxNest :
              \E v \in Nested(d) : call = NewSerializeCall(v)

\* One call of serializeValue (part_003 12-82), from entry to return or
\* panic.
SerializeCall ==
    /\ call.fn = "serializeValue"
    /\ ~call.done
    /\ call' = [call EXCEPT !.done = TRUE, !.result = serializeValue(call.v)]
    /\ UNCHANGED <<enabled, fl, nextID, arrays, ctx, frames, spans, pc, ret,
                   created, handed, inflight, wg, posted, states, nsets,
                   crashed>>

NextSerialize == SerializeCall

SpecSerialize == InitSerialize /\ [][NextSerialize]_vars


\* ------------------------------------------------------- span metadata runs
\* the maps given to WithMetadata and SetMetadata: nil, empty, and maps over
\* the keys a and b
MetadataMaps ==
    {NilMap, [isNil |-> FALSE, kv |-> << >>]}
    \cup {[isNil |-> FALSE, kv |-> kv] :
              kv \in {("a" :> 1), ("a" :> 2), ("b" :> 1),
                      ("a" :> 1) @@ ("b" :> 1)}}

\* SpecMeta: one goroutine starts spans with WithMetadata, calls SetMetadata
\* on them and ends them; the records stay in flight.
NextMeta ==
    \/ \E cm \in MetadataMaps :
          Len(spans) < MaxActive /\ Start(1, NoOpt, cm, TRUE)
    \/ \E h \in Handles, m \in MetadataMaps :
          SetterCall /\ SetMetadata(1, h, m)
    \/ \E h \in Handles : EndEnter(1, h)
    \/ EndOnce(1)

SpecMeta == Init /\ [][NextMeta]_vars


\* SpecError: one goroutine uses both styles on a client that is enabled or
\* not, with every error value returned by the wrapped function or recorded
\* with SetError.
NextError ==
    \/ SpanCall(1, NoOpt)
    \/ \E r \in Returns : SpanReturn(1, r[1], r[2])
    \/ Len(spans) < MaxActive /\ StartCall(1, NoOpt, TRUE)
    \/ \E h \in Handles, e \in Errors :
          SetterCall /\ SetError(1, h, e)
    \/ \E h \in Handles : EndEnter(1, h)
    \/ EndOnce(1)

SpecError == Init /\ [][NextError]_vars


\* SpecTrace: two goroutines call SetSessionID, SetMetadata and AddContext on
\* trace handles, step by step: the nil checks and getTraceState, then
\* createTraceState, then the write under the state's mutex.
\* *CurrentTrace values: nil, the zero value (empty trace id), and handles
\* of two traces.  Trace id 0 is the empty string.
NilTrace == [isNil |-> TRUE, traceID |-> 0]
TraceIDs == {1, 2}
CurrentTraces ==
    {NilTrace} \cup {[isNil |-> FALSE, traceID |-> id] : id \in {0} \cup TraceIDs}

\* the argument of the call: a session id, or a map that may be nil
TraceOps == {"SetSessionID", "SetMetadata", "AddContext"}
TraceArgs(op) ==
    IF op = "SetSessionID" THEN {"s1", "s2"}
    ELSE {NilMap, [isNil |-> FALSE, kv |-> ("a" :> 1)],
          [isNil |-> FALSE, kv |-> ("a" :> 2) @@ ("b" :> 1)]}

\* where a goroutine stands inside a CurrentTrace method: at is "idle"
\* (outside), "got" (after getTraceState) or "have" (ts is final); ts tells
\* whether the local ts is nil
IdleTrace == [at |-> "idle"]

\* span_context.go getTraceState: the stored pointer, or nil
getTraceState(st, traceID) == IF traceID \in DOMAIN st THEN "ptr" ELSE "nil"

\* span_context.go 106, 123, 144: the guard that returns at once
traceGuard(op, ct, arg) ==
    \/ ct.isNil
    \/ ct.traceID = 0
    \/ (op # "SetSessionID" /\ arg.isNil)

InitTrace ==
    /\ enabled = TRUE
    /\ nextID = 0
    /\ arrays = << >>
    /\ ctx = [t \in Threads |-> Background]
    /\ frames = [t \in Threads |-> << >>]
    /\ spans = << >>
    /\ pc = [t \in Threads |-> 0]
    /\ ret = NoRet
    /\ created = {}
    /\ handed = << >>
    /\ inflight = << >>
    /\ wg = 0
    /\ posted = 0
    /\ states = << >>
    /\ nsets = 0
    /\ crashed = FALSE
    /\ fl = [t \in Threads |-> NoFlush]
    /\ call = [fn |-> "trace", th |-> [t \in Threads |-> IdleTrace],
               log |-> << >>]

\* CurrentTrace.SetSessionID / SetMetadata / AddContext up to the call of
\* getTraceState (span_context.go 105-109, 122-126, 143-147)
CurrentTraceCall(t, op, ct, arg) ==
    /\ call.th[t].at = "idle"
    /\ SetterCall
    /\ call' = [call EXCEPT !.th[t] =
                   IF traceGuard(op, ct, arg) THEN IdleTrace
                   ELSE [at |-> "got", op |-> op, traceID |-> ct.traceID,
                         arg |-> arg,
                         ts |-> getTraceState(states, ct.traceID)]]
    /\ UNCHANGED <<enabled, fl, nextID, arrays, ctx, frames, spans, pc, ret,
                   created, handed, inflight, wg, posted, states, crashed>>

\* if ts == nil { ts = createTraceState(ct.traceID) }  (110-112, 127-129,
\* 148-150)
CurrentTraceCreate(t) ==
    /\ call.th[t].at = "got"
    /\ LET c  == call.th[t]
           st == IF c.ts = "nil" THEN createTraceState(states, c.traceID)
                 ELSE states
       IN  /\ states' = st
           /\ call' = [call EXCEPT !.th[t].at = "have",
                                   !.th[t].ts = getTraceState(st, c.traceID)]
    /\ UNCHANGED <<enabled, fl, nextID, arrays, ctx, frames, spans, pc, ret,
                   created, handed, inflight, wg, posted, nsets, crashed>>

\* A write that replaces what the state holds instead of adding to it.
traceWriteReplace(ts, op, arg) ==
    CASE op = "SetSessionID" -> [ts EXCEPT !.SessionID = arg]
      [] op = "SetMetadata"  -> [ts EXCEPT !.Metadata = arg]
      [] op = "AddContext"   -> [ts EXCEPT !.Contexts = <<arg.kv>>]

\* the write under ts.mu (113-115, 130-138, 151-153)
traceWrite(ts, op, arg) ==
    CASE op = "SetSessionID" -> [ts EXCEPT !.SessionID = arg]
      [] op = "SetMetadata"  ->
             [ts EXCEPT !.Metadata =
                 [isNil |-> FALSE, kv |-> mergeInto(ts.Metadata.kv, arg.kv)]]
      [] op = "AddContext"   -> [ts EXCEPT !.Contexts = Append(@, arg.kv)]

\* ts.mu.Lock() ... return: with a nil ts the lock panics and the deferred
\* recover ends the call.  call.log lists the writes in the order in which
\* they held the entry's mutex.
CurrentTraceWrite(t) ==
    /\ call.th[t].at = "have"
    /\ LET c == call.th[t]
       IN  IF c.ts = "nil"
           THEN /\ crashed' = (crashed \/ ~deferRecover)
                /\ UNCHANGED states
           ELSE /\ states' = [states EXCEPT ![c.traceID] =
                                  traceWrite(@, c.op, c.arg)]
                /\ UNCHANGED crashed
    /\ call' = [call EXCEPT !.th[t] = IdleTrace,
                            !.log = IF call.th[t].ts = "nil" THEN @
                                    ELSE Append(@, [traceID |-> call.th[t].traceID,
                                                    op |-> call.th[t].op,
                                                    arg |-> call.th[t].arg])]
    /\ UNCHANGED <<enabled, fl, nextID, arrays, ctx, frames, spans, pc, ret,
                   created, handed, inflight, wg, posted, nsets>>

NextTrace ==
    \/ \E t \in Threads, op \in TraceOps, ct \in CurrentTraces :
          \E arg \in TraceArgs(op) : CurrentTraceCall(t, op, ct, arg)
    \/ \E t \in Threads : CurrentTraceCreate(t)
    \/ \E t \in Threads : CurrentTraceWrite(t)

SpecTrace == InitTrace /\ [][NextTrace]_vars


\* SpecRecord: one goroutine completes spans whose output is a map the
\* caller keeps (the value "callerMap" is a reference to it), goes on
\* writing to that map and calling setters, while the background sends
\* encode their payloads.  call.m is the content of the caller's map.
CallerMap == "callerMap"
RecordOutputs == {"ok", CallerMap}

InitRecord ==
    /\ enabled = TRUE
    /\ nextID = 0
    /\ arrays = << >>
    /\ ctx = [t \in Threads |-> Background]
    /\ frames = [t \in Threads |-> << >>]
    /\ spans = << >>
    /\ pc = [t \in Threads |-> 0]
    /\ ret = NoRet
    /\ created = {}
    /\ handed = << >>
    /\ inflight = << >>
    /\ wg = 0
    /\ posted = 0
    /\ states = << >>
    /\ nsets = 0
    /\ crashed = FALSE
    /\ fl = [t \in Threads |-> NoFlush]
    /\ call = [fn |-> "heap", m |-> 0]

\* MarshalSpanPayload(payload) inside request (http.go 41): the bytes are
\* made from what the payload's values hold at that moment; a map held by
\* reference is read through the reference.
marshalled(p, heap) ==
    [p EXCEPT !.output = IF @ = CallerMap THEN <<"map", heap>> ELSE <<@>>]

\* the caller writes a key of the map it passed: m["k"] = v
MutateMap ==
    /\ pc[1] = 0
    /\ SetterCall
    /\ call' = [call EXCEPT !.m = @ + 1]
    /\ UNCHANGED <<enabled, fl, nextID, arrays, ctx, frames, spans, pc, ret,
                   created, handed, inflight, wg, posted, states, crashed>>

\* the same write while the goroutine of send i iterates the map in
\* json.Marshal: an unsynchronised map read and write, which the Go runtime
\* may end with "fatal error: concurrent map iteration and map write"; no
\* recover catches it
MutateWhileMarshalling(i) ==
    /\ pc[1] = 0
    /\ i \in DOMAIN inflight
    /\ inflight[i].output = CallerMap
    /\ SetterCall
    /\ call' = [call EXCEPT !.m = @ + 1]
    /\ crashed' = TRUE
    /\ UNCHANGED <<enabled, fl, nextID, arrays, ctx, frames, spans, pc, ret,
                   created, handed, inflight, wg, posted, states>>

NextRecord ==
    \/ SpanCall(1, NoOpt)
    \/ \E o \in RecordOutputs : SpanReturn(1, o, NoValue)
    \/ Len(spans) < MaxActive /\ StartCall(1, NoOpt, TRUE)
    \/ \E h \in Handles, o \in RecordOutputs :
          SetterCall /\ SetOutput(1, h, o)
    \/ \E h \in Handles : EndEnter(1, h)
    \/ EndOnce(1)
    \/ MutateMap
    \/ \E i \in DOMAIN inflight : MutateWhileMarshalling(i)
    \/ \E i \in DOMAIN inflight, resp \in UnitResponses :
          UnitFinish(i, resp)

SpecRecord == InitRecord /\ [][NextRecord]_vars


\* SpecSend: one call of sendExternalSpan on a map the caller keeps, then
\* the background send.  The maps are span payloads, with or without an
\* sdkVersion entry of their own.
SendPayloads ==
    LET plain == {Payload(t, s, q, DefaultSpanType, NoInput, o, e, m) :
                     t \in 1..2, s \in 3..4, q \in 0..1, o \in Outputs,
                     e \in {NoValue, "boom"}, m \in MetaArgs}
    IN  plain \cup {p @@ ("sdkVersion" :> "0.0.1") : p \in plain}

InitSend ==
    /\ enabled = TRUE
    /\ nextID = 0
    /\ arrays = << >>
    /\ ctx = [t \in Threads |-> Background]
    /\ frames = [t \in Threads |-> << >>]
    /\ spans = << >>
    /\ pc = [t \in Threads |-> 0]
    /\ ret = NoRet
    /\ created = {}
    /\ handed = << >>
    /\ inflight = << >>
    /\ wg = 0
    /\ posted = 0
    /\ states = << >>
    /\ nsets = 0
    /\ crashed = FALSE
    /\ fl = [t \in Threads |-> NoFlush]
    /\ \E p \in SendPayloads :
          call = [fn |-> "sendExternalSpan", given |-> p, payload |-> p,
                  done |-> FALSE]

\* hc.sendExternalSpan(payload) (http.go 96-111), from entry to return;
\* call.payload is the caller's map, call.given what it held at the call
SendPayloadCall ==
    /\ call.fn = "sendExternalSpan"
    /\ ~call.done
    /\ sendExternalSpan(call.payload)
    /\ call' = [call EXCEPT !.done = TRUE,
                            !.payload = copyPayload(@).payload]
    /\ UNCHANGED <<enabled, fl, nextID, arrays, ctx, frames, spans, pc, ret,
                   created, posted, states, nsets, crashed>>

NextSend ==
    \/ SendPayloadCall
    \/ \E i \in DOMAIN inflight, resp \in UnitResponses : UnitFinish(i, resp)

SpecSend == InitSend /\ [][NextSend]_vars


\* SpecClient: one call of NewClient with an API key (a string of blanks,
\* tabs and letters) and a list of WithEnabled options.
KeyChars == {" ", "\t", "k"}
Blank(ch) == ch \in {" ", "\t"}

\* strings.TrimSpace: the string without its leading and trailing white
\* space
RECURSIVE trimLeft(_)
trimLeft(str) ==
    IF str # << >> /\ Blank(Head(str)) THEN trimLeft(Tail(str)) ELSE str
RECURSIVE trimRight(_)
trimRight(str) ==
    IF str # << >> /\ Blank(str[Len(str)])
    THEN trimRight(SubSeq(str, 1, Len(str) - 1)) ELSE str
TrimSpace(str) == trimRight(trimLeft(str))

\* simforge.go 66-73: enabled: true, then each option in turn
RECURSIVE applyOptions(_, _)
applyOptions(e, opts) ==
    IF opts = << >> THEN e ELSE applyOptions(Head(opts), Tail(opts))

\* A check that only looks for the empty key.
autoDisableEmptyOnly(e, apiKey) == e /\ apiKey # << >>

\* simforge.go 74-77: if c.enabled && strings.TrimSpace(c.apiKey) == ""
\* { c.enabled = false }
autoDisable(e, apiKey) == e /\ TrimSpace(apiKey) # << >>

\* simforge.go NewClient 65-80: the enabled flag of the client it returns
NewClient(apiKey, opts) == autoDisable(applyOptions(TRUE, opts), apiKey)

InitClient ==
    /\ enabled = FALSE
    /\ nextID = 0
    /\ arrays = << >>
    /\ ctx = [t \in Threads |-> Background]
    /\ frames = [t \in Threads |-> << >>]
    /\ spans = << >>
    /\ pc = [t \in Threads |-> 0]
    /\ ret = NoRet
    /\ created = {}
    /\ handed = << >>
    /\ inflight = << >>
    /\ wg = 0
    /\ posted = 0
    /\ states = << >>
    /\ nsets = 0
    /\ crashed = FALSE
    /\ fl = [t \in Threads |-> NoFlush]
    /\ \E n \in 0..MaxKeyLen, k \in 0..MaxOpts :
          \E key \in [1..n -> KeyChars], opts \in [1..k -> BOOLEAN] :
              call = [fn |-> "NewClient", apiKey |-> key, opts |-> opts,
                      done |-> FALSE]

\* client := NewClient(apiKey, opts...)
NewClientCall ==
    /\ call.fn = "NewClient"
    /\ ~call.done
    /\ enabled' = NewClient(call.apiKey, call.opts)
    /\ call' = [call EXCEPT !.done = TRUE]
    /\ UNCHANGED <<fl, nextID, arrays, ctx, frames, spans, pc, ret, created,
                   handed, inflight, wg, posted, states, nsets, crashed>>

NextClient == NewClientCall

SpecClient == InitClient /\ [][NextClient]_vars


\* SpecWalk: one call of serializeValue on a value given as a graph of
\* objects, followed call by call.  Object 1 is the argument; an int has no
\* parts, a pointer has its target (none when nil), a slice or map the
\* objects it holds, which may include itself or an object that holds it.
NodeShapes(n) ==
    {[kind |-> "int", kids |-> {}]}
    \cup {[kind |-> "ptr", kids |-> s] :
              s \in {{}} \cup {{k} : k \in 1..n}}
    \cup {[kind |-> c, kids |-> s] :
              c \in {"slice", "map"}, s \in SUBSET (1..n)}

\* The calls of serializeValue that fit on the goroutine's stack.  A value
\* without a cycle never nests deeper than it has objects.
StackLimit == MaxNodes + 1

InitWalk ==
    /\ enabled = TRUE
    /\ nextID = 0
    /\ arrays = << >>
    /\ ctx = [t \in Threads |-> Background]
    /\ frames = [t \in Threads |-> << >>]
    /\ spans = << >>
    /\ pc = [t \in Threads |-> 0]
    /\ ret = NoRet
    /\ created = {}
    /\ handed = << >>
    /\ inflight = << >>
    /\ wg = 0
    /\ posted = 0
    /\ states = << >>
    /\ nsets = 0
    /\ crashed = FALSE
    /\ fl = [t \in Threads |-> NoFlush]
    /\ \E n \in 1..MaxNodes :
          \E heap \in [1..n -> NodeShapes(n)] :
              call = [fn |-> "walk", heap |-> heap,
                      stack |-> <<[node |-> 1, left |-> heap[1].kids]>>,
                      done |-> FALSE, overflow |-> FALSE]

\* part_003 65-126: the running call reaches serializeValue(part) for the
\* next part of its object (rv.Elem(), iter.Value(), rv.Index(i),
\* rv.Field(i)).  When the stack cannot take another call the runtime stops
\* the program: "fatal error: stack overflow", which no recover catches.
SerializeDescend ==
    /\ call.fn = "walk"
    /\ ~call.done
    /\ call.stack # << >>
    /\ LET d   == Len(call.stack)
           top == call.stack[d]
       IN  /\ top.left # {}
           /\ LET k == CHOOSE x \in top.left : \A y \in top.left : x <= y
              IN  IF d >= StackLimit
                  THEN /\ call' = [call EXCEPT !.done = TRUE,
                                               !.overflow = TRUE]
                       /\ crashed' = TRUE
                  ELSE /\ call' = [call EXCEPT !.stack =
                              Append([@ EXCEPT ![d].left = top.left \ {k}],
                                     [node |-> k, left |-> call.heap[k].kids])]
                       /\ UNCHANGED crashed
    /\ UNCHANGED <<enabled, fl, nextID, arrays, ctx, frames, spans, pc, ret,
                   created, handed, inflight, wg, posted, states, nsets>>

\* the running call has serialized every part of its object and returns
SerializeAscend ==
    /\ call.fn = "walk"
    /\ ~call.done
    /\ call.stack # << >>
    /\ call.stack[Len(call.stack)].left = {}
    /\ call' = [call EXCEPT !.stack = SubSeq(@, 1, Len(@) - 1),
                            !.done = (Len(call.stack) = 1)]
    /\ UNCHANGED <<enabled, fl, nextID, arrays, ctx, frames, spans, pc, ret,
                   created, handed, inflight, wg, posted, states, nsets,
                   crashed>>

NextWalk == SerializeDescend \/ SerializeAscend

SpecWalk == InitWalk /\ [][NextWalk]_vars


\* SpecStore: two goroutines call getTraceState, createTraceState and
\* deleteTraceState for two trace ids in any order.  Each function holds the
\* store lock from entry to return, so each call is one step.  call.now is
\* the clock; call.log lists the calls in lock order with what they
\* returned (the entry, or NoState for nil and for delete).
NoState == [TraceID |-> 0, SessionID |-> "", Metadata |-> NilMap,
            Contexts |-> << >>, StartedAt |-> 0]

InitStore ==
    /\ enabled = TRUE
    /\ nextID = 0
    /\ arrays = << >>
    /\ ctx = [t \in Threads |-> Background]
    /\ frames = [t \in Threads |-> << >>]
    /\ spans = << >>
    /\ pc = [t \in Threads |-> 0]
    /\ ret = NoRet
    /\ created = {}
    /\ handed = << >>
    /\ inflight = << >>
    /\ wg = 0
    /\ posted = 0
    /\ states = << >>
    /\ nsets = 0
    /\ crashed = FALSE
    /\ fl = [t \in Threads |-> NoFlush]
    /\ call = [fn |-> "store", now |-> 1, log |-> << >>]

\* one more call of a store function, at the next tick of the clock
StoreCall(t, op, id, returned) ==
    /\ call.fn = "store"
    /\ Len(call.log) < MaxStoreOps
    /\ call' = [call EXCEPT !.now = @ + 1,
                            !.log = Append(@, [t |-> t, op |-> op, id |-> id,
                                               returned |-> returned])]
    /\ UNCHANGED <<enabled, fl, nextID, arrays, ctx, frames, spans, pc, ret,
                   created, handed, inflight, wg, posted, nsets, crashed>>

\* ts := getTraceState(id)  (span_context.go 60-64)
GetTraceStateCall(t, id) ==
    /\ UNCHANGED states
    /\ StoreCall(t, "get", id,
                 IF getTraceState(states, id) = "ptr" THEN states[id]
                 ELSE NoState)

\* ts := createTraceState(id)  (span_context.go 67-79)
CreateTraceStateCall(t, id) ==
    /\ states' = createTraceStateAt(states, id, call.now)
    /\ StoreCall(t, "create", id, states'[id])

\* deleteTraceState(id)  (span_context.go 82-86)
DeleteTraceStateCall(t, id) ==
    /\ states' = deleteTraceState(states, id)
    /\ StoreCall(t, "delete", id, NoState)

NextStore ==
    \/ \E t \in Threads, id \in TraceIDs : GetTraceStateCall(t, id)
    \/ \E t \in Threads, id \in TraceIDs : CreateTraceStateCall(t, id)
    \/ \E t \in Threads, id \in TraceIDs : DeleteTraceStateCall(t, id)

SpecStore == InitStore /\ [][NextStore]_vars


\* ------------------------------------------------------------------ claims
\* the span records handed to delivery that carry span id sid
RecordsOf(sid) ==
    {i \in 1..Len(handed) : handed[i].kind = "rawSpan" /\ handed[i].id = sid}

\* the ActiveSpan objects of an enabled client
LiveHandles == {h \in Handles : spans[h].client}

\* C1 (as stated): once End has been called on an ActiveSpan of an enabled
\* client, exactly one span record of that span has been handed to delivery,
\* however many End calls were made and from however many goroutines.
C1_ExactlyOneRecord ==
    \A h \in LiveHandles :
        spans[h].done => Cardinality(RecordsOf(spans[h].spanID)) = 1

\* C1 (amended): End hands at most one span record per ActiveSpan: none
\* before the first End call runs the once body, and afterwards exactly one,
\* unless the error recorded with SetError panicked in Error() while the
\* record was assembled, in which case none is ever handed.  End calls after
\* the first leave the count as it is.
C1_AtMostOneRecord ==
    \A h \in LiveHandles :
        Cardinality(RecordsOf(spans[h].spanID)) =
            IF spans[h].done /\ ~spans[h].faulted THEN 1 ELSE 0

\* C1 witness: the record of a span has been handed over by a first End
\* while two goroutines are inside further End calls on the same span.
C1_Witness ==
    \E h \in LiveHandles :
        /\ spans[h].done
        /\ Cardinality(RecordsOf(spans[h].spanID)) = 1
        /\ \A t \in Threads : pc[t] = h


\* C2: whenever Client.Span of an enabled client ran the wrapped function,
\* what it returned to its caller is exactly the (result, error) pair the
\* function returned, and no panic reached the caller -- whether the record
\* assembly panicked, the payload could not be marshalled, the marshalling
\* panicked or the send went through.
C2_SpanReturnsFnPair ==
    (enabled /\ ret.op = "Span" /\ ret.ran = 1) =>
        /\ ret.result = ret.fnResult
        /\ ret.err = ret.fnErr
        /\ ~crashed

\* C2 witness: a Span whose function returned an error that panics in
\* Error() has returned (the assembly faulted, nothing was handed over) after
\* an earlier unmarshalable record went through its background send.
C2_Witness ==
    /\ enabled
    /\ ret.op = "Span" /\ ret.ran = 1
    /\ ret.fnErr = "errPanics" /\ ret.err = "errPanics"
    /\ Len(handed) = 1 /\ inflight = << >> /\ posted = 0

\* the context stacks every entry of the creation log should see
StackAfter(c) ==
    c.inStack \o <<[traceID |-> c.traceID, spanID |-> c.spanID]>>

\* creation log entries of spans started under a current span / as roots
Children == {c \in created : c.parent # NilEntry}
Roots == {c \in created : c.parent = NilEntry}

\* C3: a span created from a context whose current span is P has P's trace
\* id, a span id of its own (different from P's and from every other span's)
\* and parent_id = P's span id; every record handed to delivery carries the
\* ids chosen at creation, and all entries of one context stack share one
\* trace id.
C3_ChildInheritsTrace ==
    /\ \A c \in Children :
          /\ c.traceID = c.parent.traceID
          /\ c.spanID # c.parent.spanID
          /\ c.parentSpanID = c.parent.spanID
    /\ \A c, d \in created : c.spanID = d.spanID => c = d
    /\ \A i \in 1..Len(handed) :
          \E c \in created :
              /\ handed[i].id = c.spanID
              /\ handed[i].trace_id = c.traceID
              /\ handed[i].parent_id = c.parentSpanID
    /\ \A a \in 1..Len(arrays) :
          \A j, k \in 1..Len(arrays[a]) :
              arrays[a][j].traceID = arrays[a][k].traceID

\* C3 witness: a grandchild (nesting depth three) exists and the record of a
\* child has been handed to delivery.
C3_Witness ==
    /\ \E c, d \in Children :
          /\ c.parent.spanID = d.spanID
          /\ Len(c.inStack) = 2
    /\ \E i \in 1..Len(handed) : handed[i].parent_id # 0

\* C4: any two spans created with no current span have different trace ids,
\* the trace id of a root is no id minted before, and a root's record carries
\* no parent_id.
C4_RootsMintTraces ==
    /\ \A c, d \in Roots : c.traceID = d.traceID => c = d
    /\ \A c \in Roots :
          /\ c.parentSpanID = 0
          /\ \A d \in created : d.traceID = c.traceID =>
                 (d = c \/ d.spanID > c.spanID)
          /\ \A i \in 1..Len(handed) :
                 handed[i].id = c.spanID => handed[i].parent_id = 0

\* C4 witness: every goroutine is inside the Span call of a root of its own
\* while the record of an earlier root has been handed to delivery.
C4_Witness ==
    /\ \A t \in Threads : frames[t] # << >> /\ frames[t][1].parentSpanID = 0
    /\ \E c \in Roots : RecordsOf(c.spanID) # {}


\* C5: the context returned by withSpanContext(ctx, t, s) has (t, s) as its
\* current span on top of the entries of ctx, and the stack seen through ctx
\* is what it was before the push -- in every later state, whatever is pushed
\* onto the same ctx by the same or another goroutine.
C5_PushLeavesParentAlone ==
    \A c \in created :
        /\ stackOf(arrays, c.inCtx) = c.inStack
        /\ stackOf(arrays, c.outCtx) = StackAfter(c)
        /\ currentSpan(arrays, c.outCtx) =
               [traceID |-> c.traceID, spanID |-> c.spanID]

\* C5 witness: the two goroutines hold the contexts of two different spans
\* that were pushed onto the same non-empty parent context.
C5_Witness ==
    \E c, d \in created :
        /\ c # d
        /\ c.inCtx = d.inCtx /\ c.inCtx # Background
        /\ ctx[1] = c.outCtx /\ ctx[2] = d.outCtx

\* C6: a context that did not come out of withSpanContext has no current
\* span, in every state: whatever spans are open in other contexts and on
\* other goroutines.
C6_FreshContextSeesNoSpan ==
    /\ currentSpan(arrays, Background) = NilEntry
    /\ \A t \in Threads :
          ctx[t].arr = 0 => currentSpan(arrays, ctx[t]) = NilEntry

\* C6 witness: a goroutine holds a fresh context while the other one is
\* inside a Span call with a current span and an ActiveSpan is still open.
C6_Witness ==
    /\ ctx[1] = Background
    /\ frames[2] # << >> /\ currentSpan(arrays, ctx[2]) # NilEntry
    /\ \E h \in LiveHandles : ~spans[h].done


\* the six span types the enum admits
ClaimedTypes == {"llm", "agent", "function", "guardrail", "handoff", "custom"}

\* the last call was a Client.Span that returned the invalid-type error
Rejected(r) == r.op = "Span" /\ r.err = InvalidTypeErr

\* C7: on an enabled client Client.Span returns the invalid-type error exactly
\* when the span type (the default included) is outside the six types; a
\* rejected call has not run the wrapped function, and the step that rejects
\* it mints no id, pushes no context entry, opens no frame and hands no
\* record; a call with one of the six types runs the function under that type
\* and returns the function's own error.
C7_InvalidTypeRejected ==
    /\ [](enabled =>
            /\ ret.op = "Span" =>
                  /\ Rejected(ret) <=> ret.spanType \notin ClaimedTypes
                  /\ Rejected(ret) => ret.ran = 0 /\ ret.result = NoValue
                  /\ ~Rejected(ret) => ret.ran = 1 /\ ret.err = ret.fnErr
            /\ \A i \in 1..Len(frames[1]) :
                  frames[1][i].spanType \in ClaimedTypes)
    /\ [][(Rejected(ret') /\ ret' # ret) =>
              UNCHANGED <<nextID, arrays, ctx, frames, created, handed,
                          inflight, wg, posted, states>>]_vars

\* C7 witness: a Span call with a type outside the enum has been rejected
\* inside the function of a span of a valid type, after another span's record
\* was handed over.
C7_Witness ==
    /\ enabled
    /\ Rejected(ret) /\ ret.spanType = "bogus"
    /\ frames[1] # << >> /\ frames[1][1].spanType = "guardrail"
    /\ handed # << >>

\* C8: on a disabled client Client.Span runs the wrapped function with the
\* context the caller passed, returns what the function returned, and leaves
\* everything else as it was: no id minted, no context entry, no trace state,
\* no background send, no HTTP request.
C8_DisabledSpanPassThrough ==
    ~enabled =>
        /\ nextID = 0 /\ arrays = << >> /\ created = {}
        /\ states = << >>
        /\ handed = << >> /\ inflight = << >> /\ wg = 0 /\ posted = 0
        /\ ~crashed
        /\ \A t \in Threads : \A i \in 1..Len(frames[t]) :
              frames[t][i].fnCtx = frames[t][i].callerCtx
        /\ \A t \in Threads : ctx[t] = Background
        /\ ret.op = "Span" =>
              /\ ret.ran = 1
              /\ ret.result = ret.fnResult
              /\ ret.err = ret.fnErr

\* C8 witness: a disabled client's Span has returned the error of its
\* function while an outer Span call is still running its function.
C8_Witness ==
    /\ ~enabled
    /\ ret.op = "Span" /\ ret.ran = 1
    /\ ret.fnErr = "errBoom" /\ ret.err = "errBoom"
    /\ Len(frames[1]) = 1

\* C9: on a disabled client Client.Start returns the caller's context and an
\* ActiveSpan without a client; whatever setters and End calls follow, nothing
\* is handed to delivery, nothing is minted or stored, no End call gets past
\* the nil-client check and no panic reaches the caller.
C9_DisabledStartNoOp ==
    ~enabled =>
        /\ ret.op = "Start" =>
              /\ ret.outCtx = ret.argCtx
              /\ ret.span \in Handles
        /\ \A h \in Handles : ~spans[h].client /\ ~spans[h].done
        /\ \A t \in Threads : pc[t] = 0 /\ ctx[t] = Background
        /\ nextID = 0 /\ arrays = << >> /\ created = {}
        /\ handed = << >> /\ inflight = << >> /\ wg = 0 /\ posted = 0
        /\ ~crashed

\* C9 witness: End has been called on a disabled client's ActiveSpan after
\* SetOutput with an unmarshalable value and SetError with an error whose
\* Error() panics.
C9_Witness ==
    /\ ~enabled
    /\ ret.op = "Start"
    /\ \E h \in Handles :
          /\ spans[h].noopEnd
          /\ spans[h].output = "chan"
          /\ spans[h].spanErr = "errPanics"

\* the trace-completion records handed to delivery for trace tid
CompletionsOf(tid) ==
    {i \in 1..Len(handed) :
        handed[i].kind = "externalTrace" /\ handed[i].trace_id = tid}

\* the creation log entries whose span has completed: its Span call has
\* returned or the once body of its End has run
Completed ==
    {c \in created :
        \/ c.via = "Span" /\
              \A t \in Threads : \A i \in 1..Len(frames[t]) :
                  frames[t][i].spanID # c.spanID
        \/ c.via = "Start" /\
              \E h \in Handles : spans[h].spanID = c.spanID /\ spans[h].done}

\* C10 (as stated): a trace has exactly one trace-completion record once its
\* root span has completed and none before; the completion of a non-root
\* span adds none.
C10_OneCompletionPerTrace ==
    \A c \in Roots :
        Cardinality(CompletionsOf(c.traceID)) =
            IF c \in Completed THEN 1 ELSE 0


\* C11 (as stated): while a root span is open the trace state store holds an
\* entry for its trace id, created when the span was created.
C11_RootCreatesTraceState ==
    \A c \in Roots : c \notin Completed => c.traceID \in DOMAIN states

\* C12 (as stated): the step that completes a root span (the once body of its
\* End) leaves no trace state entry for the root's trace id, whatever
\* SetSessionID stored during the trace.
C12_RootCompletionDeletesState ==
    [][\A h \in Handles :
          (/\ spans[h].client
           /\ spans[h].parentSpanID = 0
           /\ ~spans[h].done
           /\ spans'[h].done) => spans[h].traceID \notin DOMAIN states']_vars


\* C13: the in-flight counter equals the number of background sends still
\* running -- every send that came to an end, by a marshal error, a marshal
\* panic, a transport failure or any response, took exactly one off it -- so
\* it is zero when none is running; and no panic of a send reached the host.
C13_UnitsBalanceCounter ==
    /\ wg = Cardinality(DOMAIN inflight)
    /\ Cardinality(DOMAIN inflight) + posted <= Len(handed)
    /\ ~crashed

\* C13 witness: three sends have come to an end and the counter is back at
\* zero; only one of them got as far as its HTTP request (the other two
\* failed or panicked in the marshalling).
C13_Witness ==
    /\ Len(handed) = 3
    /\ inflight = << >>
    /\ wg = 0
    /\ posted = 1


\* C14 (as stated): a flush returns through done only when none of the sends
\* that were in flight at its call is still running; it can return through
\* done (without waiting for the timeout) as soon as all of those sends have
\* finished, in particular when none was in flight; the timeout can end it at
\* any time.
C14_ReturnsWhenPreSendsDone ==
    \A t \in Threads :
        /\ fl[t].by = "done" => fl[t].left = {}
        /\ pc[t] = InFlush => ENABLED FlushReturnTimeout(t)
        /\ (pc[t] = InFlush /\ fl[t].pre \cap DOMAIN inflight = {})
               => ENABLED FlushReturnDone(t)

\* C14 (amended): a flush returns through done only when none of the sends
\* that were in flight at its call is still running; it can return through
\* done exactly when no send at all is running, whether started before the
\* call or during the wait, in particular when none was in flight; the
\* timeout can end it at any time.
C14_ReturnsWhenCounterZero ==
    \A t \in Threads :
        /\ fl[t].by = "done" => fl[t].left = {}
        /\ pc[t] = InFlush => ENABLED FlushReturnTimeout(t)
        /\ pc[t] = InFlush =>
               (ENABLED FlushReturnDone(t) <=> DOMAIN inflight = {})

\* C14 witness: a flush that was called with sends in flight has returned
\* through done after a further send was started during the wait.
C14_Witness ==
    /\ pc[1] = 0
    /\ fl[1].by = "done"
    /\ fl[1].pre # {}
    /\ \E i \in 1..Len(handed) : i \notin fl[1].pre
    /\ inflight = << >>


\* C15: a flush that returns on timeout leaves the in-flight sends and the
\* counter as they are; every send it left running eventually finishes; a
\* flush called after it waits for the still-running ones again and cannot
\* return through done while one of them runs.
C15_TimeoutAbandonsSends ==
    /\ [][(pc[1] = InFlush /\ pc'[1] = 0 /\ fl'[1].by = "timeout")
              => (inflight' = inflight /\ wg' = wg)]_vars
    /\ (fl[1].by = "timeout" /\ fl[1].left \cap DOMAIN inflight # {})
           ~> (fl[1].left \cap DOMAIN inflight = {})
    /\ [](\A t \in Threads :
              (pc[t] = InFlush /\ fl[t].by = "timeout") =>
                  /\ fl[t].left \cap DOMAIN inflight \subseteq fl[t].pre
                  /\ fl[t].left \cap DOMAIN inflight # {}
                         => ~ENABLED FlushReturnDone(t))

\* C15 witness: a flush timed out with a send running, and a second flush is
\* now waiting for that same send.
C15_Witness ==
    /\ pc[1] = InFlush
    /\ fl[1].by = "timeout"
    /\ fl[1].left \cap DOMAIN inflight # {}
    /\ fl[1].left \cap DOMAIN inflight \subseteq fl[1].pre


\* a finished call of request with an attempt count of at least one
ReturnedRequest == call.fn = "request" /\ call.done /\ call.maxRetries >= 1

\* an attempt fails in the retry policy's sense: transport failure or a
\* response outside 2xx
AttemptFails(resp) == resp.do = "err" \/ resp.status < 200 \/ resp.status > 299

\* an attempt answered by a 2xx response whose body has no error member
AttemptSucceeds(resp) ==
    /\ ~AttemptFails(resp)
    /\ resp.body = "notObject" \/ bodyErrorField(resp.body) = "absent"

\* attempts 1..k-1 fail and attempt k succeeds
FirstSuccessAt(k) ==
    /\ k \in DOMAIN call.script
    /\ \A j \in 1..(k - 1) : AttemptFails(call.script[j])
    /\ AttemptSucceeds(call.script[k])

\* POSTs one after another with one sleep between two consecutive POSTs and
\* none before the first
OneAfterAnother(events) ==
    \A k \in DOMAIN events :
        events[k] = (IF k % 2 = 1 THEN "post" ELSE "sleep")

\* what C16 says of a finished call
RetryContract ==
    /\ ~call.result.panicked
    /\ OneAfterAnother(call.result.events)
    /\ posts(call.result.events) <= call.maxRetries
    /\ \A k \in 1..call.maxRetries :
           (\A j \in 1..k : AttemptFails(call.script[j]))
               => posts(call.result.events) >= k
    /\ \A k \in 1..call.maxRetries :
           FirstSuccessAt(k) =>
               /\ posts(call.result.events) = k
               /\ Len(call.result.events) = 2 * k - 1
               /\ call.result.err = NoErr
    /\ call.maxRetries = DefaultMaxRetries
           => posts(call.result.events) = 1

\* C16 (as stated): every call of request with N >= 1 sends its POSTs one
\* after another with a delay before each but the first, goes on after each
\* failed attempt, sends at most N, sends exactly k and returns nil when the
\* first success is on attempt k, and sends exactly one with the default N.
C16_BoundedRetry == ReturnedRequest => RetryContract

\* C16 (amended): the same, for calls whose payload json.Marshal encodes and
\* whose URL http.NewRequest accepts; every other call sends no POST at all
\* and returns an error or panics.
C16_BoundedRetryWhenEncodable ==
    ReturnedRequest =>
        IF call.urlOK /\ ~Unmarshalable(call.payload)
                      /\ ~MarshalPanics(call.payload)
        THEN RetryContract
        ELSE /\ posts(call.result.events) = 0
             /\ call.result.panicked \/ call.result.err # NoErr

\* C16 witness: a call with N = 3 whose first two attempts failed and whose
\* third succeeded has returned nil after three POSTs and two sleeps.
C16_Witness ==
    /\ ReturnedRequest
    /\ call.maxRetries = 3
    /\ FirstSuccessAt(3)
    /\ call.result.events = <<"post", "sleep", "post", "sleep", "post">>
    /\ call.result.err = NoErr


\* all N attempts of the finished call were made and each one failed
AllAttemptsFailed ==
    /\ ReturnedRequest
    /\ posts(call.result.events) = call.maxRetries
    /\ \A j \in 1..call.maxRetries : AttemptFails(call.script[j])

\* C17: when all N >= 1 attempts of a request call failed, the call returns
\* a non-nil error, and it is the error of attempt N.
C17_LastErrorReturned ==
    AllAttemptsFailed =>
        /\ ~call.result.panicked
        /\ call.result.err # NoErr
        /\ call.result.err = errorOf(call.script[call.maxRetries])

\* C17 witness: three attempts failed in three different ways (transport
\* failure, 300, 500) and the call returned the error of the 500.
C17_Witness ==
    /\ AllAttemptsFailed
    /\ call.maxRetries = 3
    /\ call.script[1] = TransportFailure
    /\ call.script[2].status = 300
    /\ call.script[3].status = 500
    /\ call.result.err = [kind |-> "http", status |-> 500, body |-> "notObject"]


\* the finished call sent at least one POST and the last one was answered
\* with a 2xx response
EndedOn2xx ==
    /\ ReturnedRequest
    /\ posts(call.result.events) >= 1
    /\ ~AttemptFails(call.script[posts(call.result.events)])

\* the body of the response to the last POST
LastBody == call.script[posts(call.result.events)].body

\* C18 (as stated): a 2xx response whose body is an object with an error
\* member, whatever its value, makes request return a logical error, with the
\* hint exactly when the body has a url member; any other 2xx response makes
\* it return nil.
C18_AnyErrorFieldIsError ==
    EndedOn2xx =>
        IF bodyIsObject(LastBody) /\ bodyErrorField(LastBody) # "absent"
        THEN call.result.err = LogicalErr(bodyUrlField(LastBody) # "absent")
        ELSE call.result.err = NoErr

\* C18 (amended): a 2xx response whose body is an object with an error
\* member that is a string makes request return a logical error, with the
\* hint exactly when the body has a url member that is a string; any other
\* 2xx response, one whose error member is not a string included, makes it
\* return nil.
C18_StringErrorFieldIsError ==
    EndedOn2xx =>
        IF bodyIsObject(LastBody) /\ bodyErrorField(LastBody) = "string"
        THEN call.result.err = LogicalErr(bodyUrlField(LastBody) = "string")
        ELSE call.result.err = NoErr

\* C18 witness: a 200 response with a string error and a string url has made
\* request return the logical error with the hint.
C18_Witness ==
    /\ EndedOn2xx
    /\ LastBody = "errStrUrl"
    /\ call.result.err = [kind |-> "logical", hint |-> TRUE]


\* attempt k of the finished call is answered with a 2xx response whose body
\* carries a logical error
LogicalFailure(resp) == ~AttemptFails(resp) /\ bodyHasError(resp.body)

\* the finished call could make its attempts: the payload was encoded and
\* the request built
AttemptsMade ==
    /\ ReturnedRequest
    /\ call.urlOK
    /\ ~Unmarshalable(call.payload)
    /\ ~MarshalPanics(call.payload)

\* C19 (as stated): an attempt that ends in a delivery failure of either
\* kind, a non-2xx response or a 2xx response with a logical-error body, is
\* followed by another attempt as long as fewer than N were made.
C19_BothKindsRetried ==
    AttemptsMade =>
        \A k \in 1..(call.maxRetries - 1) :
            (\A j \in 1..k : AttemptFails(call.script[j])
                                 \/ LogicalFailure(call.script[j]))
                => posts(call.result.events) >= k + 1

\* C19 (amended): an attempt that ends in a transport failure or a non-2xx
\* response is followed by another attempt as long as fewer than N were
\* made; an attempt answered by a 2xx response with a logical-error body is
\* the last one, and request returns that logical error; with the default
\* attempt count, which the delivery path uses, no failure is retried.
C19_OnlyTransportFailuresRetried ==
    AttemptsMade =>
        /\ \A k \in 1..(call.maxRetries - 1) :
               (\A j \in 1..k : AttemptFails(call.script[j]))
                   => posts(call.result.events) >= k + 1
        /\ \A k \in 1..call.maxRetries :
               (/\ \A j \in 1..(k - 1) : AttemptFails(call.script[j])
                /\ LogicalFailure(call.script[k]))
                   => /\ posts(call.result.events) = k
                      /\ call.result.err = errorOf(call.script[k])
                      /\ call.result.err.kind = "logical"
        /\ call.maxRetries = DefaultMaxRetries
               => posts(call.result.events) = 1

\* C19 witness: with N = 3 a 500 response was retried and the logical error
\* answered to the second attempt ended the call after two POSTs.
C19_Witness ==
    /\ AttemptsMade
    /\ call.maxRetries = 3
    /\ call.script[1].status = 500
    /\ LogicalFailure(call.script[2])
    /\ posts(call.result.events) = 2
    /\ call.result.err.kind = "logical"


\* C20: every call of serializeValue returns a tree; none panics, whatever
\* the kind of the value, the methods of its type, and whether it is a nil
\* pointer.
C20_SerializeNeverPanics ==
    (call.fn = "serializeValue" /\ call.done) => ~call.result.fault


\* a finished call of serializeValue
Serialized == call.fn = "serializeValue" /\ call.done

\* the rules of the resolution order, earliest first
RuleOrder ==
    <<"nil", "scalar", "timestamp", "self-serializing", "error-like",
      "stringer", "mapping", "sequence", "struct", "by-reference", "text">>

\* value v matches rule r
RuleMatches(v, r) ==
    CASE r = "nil" -> v.type = "nil"
      [] r = "scalar" -> v.type \in ScalarTypes
      [] r = "timestamp" -> v.type = "time.Time"
      [] r = "self-serializing" -> v.mj # "none"
      [] r = "error-like" -> v.er # "none"
      [] r = "stringer" -> v.st # "none"
      [] r = "mapping" -> v.kind = "map"
      [] r = "sequence" -> v.kind \in {"slice", "array"}
      [] r = "struct" -> v.kind = "struct"
      [] r = "by-reference" -> v.kind = "ptr"
      [] OTHER -> TRUE

\* the earliest rule v matches
EarliestRule(v) ==
    RuleOrder[CHOOSE i \in DOMAIN RuleOrder :
                  /\ RuleMatches(v, RuleOrder[i])
                  /\ \A j \in 1..(i - 1) : ~RuleMatches(v, RuleOrder[j])]

\* tree is what rule r yields for v
RuleYields(v, r, tree) ==
    CASE r = "nil" -> tree = Null
      [] r = "scalar" -> tree.t \in ScalarTypes /\ tree.val = v.val
      [] r = "timestamp" -> tree = Text("time")
      [] r = "self-serializing" ->
             tree \in {Parsed, Text("bytes"), Text("Sprintf")}
      [] r = "error-like" -> tree = Text("Error")
      [] r = "stringer" -> tree = Text("String")
      [] r = "mapping" -> tree.t = "map"
      [] r = "sequence" -> tree.t = "list"
      [] r = "struct" -> tree.t = "map"
      [] r = "by-reference" ->
             IF v.isNil THEN tree = Null
             ELSE tree = serializeValue(v.kids[1]).tree
      [] OTHER -> tree = Text("Sprintf")

\* C21: a call of serializeValue that returns yields what the earliest rule
\* the value matches yields, whatever later rules it matches too; a call
\* that panics does so in the method of the earliest rule or below a
\* container that is the earliest rule.
C21_FirstMatchWins ==
    Serialized =>
        IF call.result.fault
        THEN EarliestRule(call.v) \in
                 {"self-serializing", "error-like", "stringer", "mapping",
                  "sequence", "struct", "by-reference"}
        ELSE RuleYields(call.v, EarliestRule(call.v), call.result.tree)

\* C21 witness: a struct that is error-like and a stringer has yielded its
\* error message.
C21_Witness ==
    /\ Serialized
    /\ call.v.kind = "struct"
    /\ call.v.mj = "none" /\ call.v.er = "ok" /\ call.v.st = "ok"
    /\ call.result.tree = Text("Error")


\* a call of serializeValue on a struct without methods has returned a tree
StructSerialized ==
    /\ Serialized
    /\ call.v.type = "other" /\ call.v.kind = "struct"
    /\ call.v.mj = "none" /\ call.v.er = "none" /\ call.v.st = "none"
    /\ ~call.result.fault

\* the name part of a tag: what stands before its first comma
RECURSIVE NamePart(_)
NamePart(tag) ==
    IF tag = << >> \/ Head(tag) = "," THEN << >>
    ELSE <<Head(tag)>> \o NamePart(Tail(tag))

\* a field is suppressed when its tag is exactly "-"
Suppressed(f) == f.tag = <<"-">>

\* the fields that are to be emitted, and the key of each
ToEmit(f) == f.exported /\ ~Suppressed(f)
KeyOf(f) == IF NamePart(f.tag) # << >> THEN NamePart(f.tag) ELSE f.name

\* the keys of the fields of the struct that are to be emitted
KeysToEmit ==
    {KeyOf(call.v.names[j]) :
         j \in {k \in DOMAIN call.v.names : ToEmit(call.v.names[k])}}

\* the struct has a field tagged "-"
HasSuppressedField ==
    \E i \in DOMAIN call.v.names : Suppressed(call.v.names[i])

\* C22: the mapping serializeValue returns for a struct with a field tagged
\* exactly "-" has no key of that field, under its declared name or any
\* other, and has the key of every other public field.
C22_DashTagSuppresses ==
    (StructSerialized /\ HasSuppressedField) =>
        /\ \A i \in DOMAIN call.v.names :
               Suppressed(call.v.names[i])
                   => call.v.names[i].name \notin DOMAIN call.result.tree.members
        /\ DOMAIN call.result.tree.members = KeysToEmit


\* C23: the mapping serializeValue returns for a struct has exactly the keys
\* of its exported fields whose tag is not exactly "-", each under the name
\* part of its tag or, when that part is empty, under its declared name;
\* fields holding a zero value are not left out and unexported fields are
\* never emitted.
C23_EmitsExactlyPublicFields ==
    StructSerialized =>
        /\ DOMAIN call.result.tree.members = KeysToEmit
        /\ \A i \in DOMAIN call.v.names :
               ~call.v.names[i].exported
                   => call.v.names[i].name \notin DOMAIN call.result.tree.members


\* the type of v has none of the MarshalJSON, Error and String methods
Plain(v) == v.mj = "none" /\ v.er = "none" /\ v.st = "none"

\* a tree without pointers or other Go values in it
RECURSIVE JSONSafe(_)
JSONSafe(tree) ==
    CASE tree.t = "list" ->
             \A i \in DOMAIN tree.items : JSONSafe(tree.items[i])
      [] tree.t = "map" ->
             \A k \in DOMAIN tree.members : JSONSafe(tree.members[k])
      [] OTHER -> tree.t \in ScalarTypes \cup {"nil", "text", "parsed"}

\* the result r is the element-wise serialization of the sequence v
SequenceOf(v, r) ==
    /\ ~r.fault
    /\ r.tree.t = "list"
    /\ Len(r.tree.items) = Len(v.kids)
    /\ \A i \in DOMAIN v.kids :
           r.tree.items[i] = serializeValue(v.kids[i]).tree

\* the result r is a mapping from the key texts of the map v to the
\* serialized values of entries with that text
MappingOf(v, r) ==
    /\ ~r.fault
    /\ r.tree.t = "map"
    /\ DOMAIN r.tree.members = {v.names[i].name : i \in DOMAIN v.names}
    /\ \A k \in DOMAIN r.tree.members :
           \E i \in DOMAIN v.kids :
               /\ v.names[i].name = k
               /\ r.tree.members[k] = serializeValue(v.kids[i]).tree

\* the serialization of an element of v panics
ElementPanics(v) == \E i \in DOMAIN v.kids : serializeValue(v.kids[i]).fault

\* C24 (as stated): a nil pointer yields nil and a non-nil pointer what its
\* referent yields; a slice or array yields a list of the same length whose
\* elements are the serialized elements, in order; a map yields a mapping
\* from key texts to serialized values; no returned tree holds a pointer.
C24_RecursesFully ==
    Serialized =>
        /\ call.v.kind = "ptr" =>
               IF call.v.isNil THEN call.result = Returned(Null)
               ELSE call.result = serializeValue(call.v.kids[1])
        /\ call.v.kind \in {"slice", "array"} => SequenceOf(call.v, call.result)
        /\ call.v.kind = "map" => MappingOf(call.v, call.result)
        /\ ~call.result.fault => JSONSafe(call.result.tree)

\* C24 (amended): for values whose own type has none of the MarshalJSON,
\* Error and String methods: a nil pointer yields nil and a non-nil pointer
\* exactly what its referent yields, a panic included; a slice or array
\* yields a list of the same length whose elements are the serialized
\* elements, in order, and a map a mapping from key texts to serialized
\* values, unless the serialization of an element panics, which makes the
\* call panic; no returned tree holds a pointer.
C24_RecursesFullyWithoutMethods ==
    (Serialized /\ Plain(call.v)) =>
        /\ call.v.kind = "ptr" =>
               IF call.v.isNil THEN call.result = Returned(Null)
               ELSE call.result = serializeValue(call.v.kids[1])
        /\ call.v.kind \in {"slice", "array"} =>
               IF ElementPanics(call.v) THEN call.result.fault
               ELSE SequenceOf(call.v, call.result)
        /\ call.v.kind = "map" =>
               IF ElementPanics(call.v) THEN call.result.fault
               ELSE MappingOf(call.v, call.result)
        /\ ~call.result.fault => JSONSafe(call.result.tree)

\* C24 witness: a pointer to a pointer to an int8 has yielded the widened
\* number.
C24_Witness ==
    /\ Serialized
    /\ call.v.kind = "ptr" /\ ~call.v.isNil /\ Plain(call.v)
    /\ call.v.kids[1].kind = "ptr" /\ ~call.v.kids[1].isNil
    /\ call.v.kids[1].kids[1] = ScalarValue("int8", 1)
    /\ call.result = Returned(Number("int", 1))


\* the integer and the floating-point types among the scalar types
IntegerTypes ==
    {"int", "int8", "int16", "int32", "int64",
     "uint", "uint8", "uint16", "uint32", "uint64"}
FloatTypes == {"float32", "float64"}

\* a call of serializeValue on a value of a builtin scalar type has finished
ScalarSerialized == Serialized /\ call.v.type \in ScalarTypes

\* the tree serializeValue yields for the number n held in type ty
TreeOf(ty, n) == serializeValue(ScalarValue(ty, n)).tree

\* C25 (as stated): a scalar serializes to its own value, and an integer to
\* the same tree as the equal integer of any other integer type, a float to
\* the same tree as the equal float of the other float type.
C25_OneCanonicalWidth ==
    ScalarSerialized =>
        /\ ~call.result.fault
        /\ call.result.tree.val = call.v.val
        /\ call.v.type \in IntegerTypes =>
               \A ty \in IntegerTypes :
                   TreeOf(ty, call.v.val) = call.result.tree
        /\ call.v.type \in FloatTypes =>
               \A ty \in FloatTypes :
                   TreeOf(ty, call.v.val) = call.result.tree

\* C25 (amended): a scalar serializes to its own value; int, int8, int16 and
\* int32 yield an int, int64 an int64, uint, uint8, uint16 and uint32 a uint,
\* uint64 a uint64, float32 and float64 a float64, string and bool their own
\* type.
C25_FourIntegerWidths ==
    ScalarSerialized =>
        /\ ~call.result.fault
        /\ call.result.tree.val = call.v.val
        /\ call.result.tree.t =
               CASE call.v.type \in {"int", "int8", "int16", "int32"} -> "int"
                 [] call.v.type \in {"uint", "uint8", "uint16", "uint32"} -> "uint"
                 [] call.v.type \in FloatTypes -> "float64"
                 [] OTHER -> call.v.type

\* C25 witness: the int16 1 has been serialized to the int 1, and the int64
\* 1 serializes to a different tree.
C25_Witness ==
    /\ ScalarSerialized
    /\ call.v = ScalarValue("int16", 1)
    /\ call.result.tree = Number("int", 1)
    /\ TreeOf("int64", 1) # call.result.tree


\* C26: when the background unit of a record whose output holds a channel or
\* function finishes, it has sent the record in an HTTP request.
C26_UnencodableStillSent ==
    [][\A i \in DOMAIN inflight :
           (i \notin DOMAIN inflight' /\ Unmarshalable(inflight[i]))
               => posted' = posted + 1]_vars


\* the union of two key-value maps in which the second wins on common keys
UnionLaterWins(first, second) ==
    [k \in DOMAIN first \cup DOMAIN second |->
        IF k \in DOMAIN second THEN second[k] ELSE first[k]]

\* the record End has just handed over
NewRecord == inflight'[Len(handed')]

\* C27: a SetMetadata call with a map leaves the span's runtime metadata with
\* every key it had before and every key of the map, the map's values on
\* the keys of the map; and the metadata of the record End hands over has
\* every key of the WithMetadata map and of the runtime metadata, with the
\* runtime value on common keys (no metadata when neither was given).
C27_MetadataUnionRuntimeWins ==
    [][/\ \A h \in Handles, m \in MetadataMaps :
              (SetMetadata(1, h, m) /\ ~m.isNil) =>
                  /\ ~spans'[h].metadata.isNil
                  /\ spans'[h].metadata.kv =
                         UnionLaterWins(spans[h].metadata.kv, m.kv)
       /\ \A h \in Handles :
              (pc[1] = h /\ EndOnce(1) /\ Len(handed') = Len(handed) + 1) =>
                  NewRecord.metadata =
                      IF spans[h].cfgMetadata.isNil /\ spans[h].metadata.isNil
                      THEN NilMap
                      ELSE [isNil |-> FALSE,
                            kv |-> UnionLaterWins(spans[h].cfgMetadata.kv,
                                                  spans[h].metadata.kv)]]_vars

\* C27 witness: a span started with {a: 1, b: 1} on which SetMetadata({a: 1})
\* and then SetMetadata({a: 2}) were called has been ended, and its record
\* carries {a: 2, b: 1}.
C27_Witness ==
    \E h \in Handles :
        /\ spans[h].done
        /\ spans[h].cfgMetadata.kv = ("a" :> 1) @@ ("b" :> 1)
        /\ spans[h].metadata.kv = ("a" :> 2)
        /\ nsets = 2
        /\ \E i \in DOMAIN inflight :
               /\ inflight[i].id = spans[h].spanID
               /\ inflight[i].metadata.kv = ("a" :> 2) @@ ("b" :> 1)


\* The record a step hands to delivery carries the message text of error e,
\* or no error field when e is nil.
HandsRecordWith(e) ==
    /\ Len(handed') = Len(handed) + 1
    /\ NewRecord.error = CASE e = NoValue   -> NoValue
                           [] e = "errBoom" -> "boom"
                           [] OTHER         -> "?"

\* The first End of handle h runs its once body in this step.
FirstEnd(h) == pc[1] = h /\ ~spans[h].done /\ EndOnce(1)

\* C28 (as stated): on an enabled client, when fn returns a non-nil error e,
\* or e was recorded with SetError before End, a span record is still handed
\* to delivery with e's message text as its error; with no error the record
\* has no error field.
C28_ErrorAlwaysRecorded ==
    [][/\ \A r \in Returns :
              (enabled /\ SpanReturn(1, r[1], r[2])) => HandsRecordWith(r[2])
       /\ \A h \in Handles :
              FirstEnd(h) => HandsRecordWith(spans[h].spanErr)]_vars

\* C28 (amended): the same for every error whose Error() method returns;
\* when Error() panics, the panic is recovered, no record is handed over,
\* and Span still returns fn's result and error unchanged.
C28_ErrorRecordedUnlessItPanics ==
    [][/\ \A r \in Returns :
              (enabled /\ SpanReturn(1, r[1], r[2])) =>
                  /\ ret'.result = r[1] /\ ret'.err = r[2]
                  /\ ~crashed'
                  /\ IF r[2] = "errPanics"
                     THEN handed' = handed /\ inflight' = inflight
                     ELSE HandsRecordWith(r[2])
       /\ \A h \in Handles :
              FirstEnd(h) =>
                  /\ ~crashed'
                  /\ IF spans[h].spanErr = "errPanics"
                     THEN handed' = handed /\ inflight' = inflight
                     ELSE HandsRecordWith(spans[h].spanErr)]_vars

\* C28 witness: Span returned errBoom and End ran after SetError(errBoom);
\* the record of each carries "boom".
C28_Witness ==
    /\ ret.op = "Span" /\ ret.err = "errBoom"
    /\ \E h \in Handles :
          /\ spans[h].done /\ spans[h].spanErr = "errBoom"
          /\ \E i \in DOMAIN inflight :
                inflight[i].id = spans[h].spanID /\ inflight[i].error = "boom"
    /\ \E i \in DOMAIN inflight :
          inflight[i].id \notin {spans[h].spanID : h \in Handles}
          /\ inflight[i].error = "boom"


\* C29: every span record handed to delivery, by Span or by Start/End, has a
\* span_data.type among llm, agent, function, guardrail, handoff, custom.
C29_RecordTypeInEnum ==
    \A i \in DOMAIN inflight : inflight[i].type \in ClaimedTypes


\* the call is one the claim names a no-op: nil handle, empty trace id, or a
\* nil map given to SetMetadata / AddContext
NoOpCall(op, ct, arg) ==
    \/ ct.isNil
    \/ ct.traceID = 0
    \/ (op \in {"SetMetadata", "AddContext"} /\ arg.isNil)

\* the store holds an entry for id, and it is what `before` was (a fresh
\* entry when id had none) with the write of op(arg) applied
WriteApplied(id, op, arg) ==
    /\ id \in DOMAIN states'
    /\ LET old == IF id \in DOMAIN states THEN states[id]
                  ELSE [TraceID |-> id, SessionID |-> "",
                        Metadata |-> NilMap, Contexts |-> << >>]
           new == states'[id]
       IN  /\ new.TraceID = id
           /\ new.SessionID =
                  IF op = "SetSessionID" THEN arg ELSE old.SessionID
           /\ new.Metadata =
                  IF op = "SetMetadata"
                  THEN [isNil |-> FALSE,
                        kv |-> UnionLaterWins(old.Metadata.kv, arg.kv)]
                  ELSE old.Metadata
           /\ new.Contexts =
                  IF op = "AddContext" THEN Append(old.Contexts, arg.kv)
                  ELSE old.Contexts
    /\ \A other \in DOMAIN states' \ {id} :
          other \in DOMAIN states /\ states'[other] = states[other]

\* C30: SetSessionID, SetMetadata and AddContext through a nil handle, a
\* handle with an empty trace id or (the last two) with a nil argument
\* return at once and leave the store alone; any other call goes on, has an
\* entry for its trace id by the time it writes, creating it when there was
\* none, applies its write to that entry, and never faults.
C30_TraceWritesCreateOnDemand ==
    [][/\ \A t \in Threads, op \in TraceOps, ct \in CurrentTraces :
              \A arg \in TraceArgs(op) :
                  CurrentTraceCall(t, op, ct, arg) =>
                      /\ states' = states /\ ~crashed'
                      /\ IF NoOpCall(op, ct, arg)
                         THEN call'.th[t].at = "idle"
                         ELSE call'.th[t].at = "got"
       /\ \A t \in Threads :
              CurrentTraceCreate(t) =>
                  /\ call.th[t].traceID \in DOMAIN states'
                  /\ \A id \in DOMAIN states : states'[id] = states[id]
                  /\ ~crashed'
       /\ \A t \in Threads :
              CurrentTraceWrite(t) =>
                  /\ ~crashed'
                  /\ call'.th[t].at = "idle"
                  /\ WriteApplied(call.th[t].traceID, call.th[t].op,
                                  call.th[t].arg)]_vars

\* C30 witness: two calls on handles of trace 1, which had no entry, have
\* returned; the entry exists and holds the session id and the metadata.
C30_Witness ==
    /\ call.fn = "trace"
    /\ \A t \in Threads : call.th[t].at = "idle"
    /\ DOMAIN states = {1}
    /\ states[1].SessionID = "s1"
    /\ states[1].Metadata = [isNil |-> FALSE, kv |-> ("a" :> 1)]


\* the arguments of the op calls on trace id, in lock-acquisition order
LoggedArgs(id, op) ==
    LET hit(e) == e.traceID = id /\ e.op = op
    IN  [i \in 1..Len(SelectSeq(call.log, hit)) |->
            SelectSeq(call.log, hit)[i].arg.kv]

\* the maps of a sequence merged one after another, later values winning
RECURSIVE MergedInOrder(_)
MergedInOrder(maps) ==
    IF maps = << >> THEN << >>
    ELSE UnionLaterWins(MergedInOrder(SubSeq(maps, 1, Len(maps) - 1)),
                        maps[Len(maps)])

\* C31: whatever the interleaving of SetMetadata and AddContext calls on one
\* trace, its metadata holds every key written with the value of the write
\* that took the entry lock last, and its contexts hold one whole entry per
\* AddContext call in lock-acquisition order.
C31_NoLostTraceUpdate ==
    call.fn = "trace" =>
        \A id \in TraceIDs :
            IF id \in DOMAIN states
            THEN /\ states[id].Metadata.kv = MergedInOrder(LoggedArgs(id, "SetMetadata"))
                 /\ states[id].Metadata.isNil = (LoggedArgs(id, "SetMetadata") = << >>)
                 /\ states[id].Contexts = LoggedArgs(id, "AddContext")
            ELSE \A i \in DOMAIN call.log : call.log[i].traceID # id

\* C31 witness: two SetMetadata calls on trace 1 wrote colliding keys; both
\* writes are in the entry, the later one on top.
C31_Witness ==
    /\ call.fn = "trace"
    /\ Len(call.log) = 2
    /\ call.log[1] = [traceID |-> 1, op |-> "SetMetadata",
                      arg |-> [isNil |-> FALSE, kv |-> ("a" :> 2) @@ ("b" :> 1)]]
    /\ call.log[2] = [traceID |-> 1, op |-> "SetMetadata",
                      arg |-> [isNil |-> FALSE, kv |-> ("a" :> 1)]]
    /\ states[1].Metadata.kv = ("a" :> 1) @@ ("b" :> 1)


\* what send i would transmit if it encoded its payload now
ContentOf(i) == marshalled(inflight[i], call.m)

\* C32: a span record is immutable once built: from its hand-over until it
\* is transmitted, the content that will be transmitted for it stays what
\* it was at completion, whatever the caller does meanwhile.
C32_RecordImmutable ==
    [][call.fn = "heap" =>
          \A i \in DOMAIN inflight \cap DOMAIN inflight' :
              ContentOf(i)' = ContentOf(i)]_vars


\* C33: sendExternalSpan leaves the caller's map as it was and hands the
\* background send a map with every key of the payload, holding the
\* payload's value, plus sdkVersion holding the SDK version.
C33_PayloadNotMutated ==
    [][SendPayloadCall =>
          /\ call'.payload = call.given
          /\ call.payload = call.given
          /\ LET sent == inflight'[Len(handed')]
             IN  /\ DOMAIN sent = DOMAIN call.given \cup {"sdkVersion"}
                 /\ sent["sdkVersion"] = "0.6.0"
                 /\ \A k \in DOMAIN call.given \ {"sdkVersion"} :
                        sent[k] = call.given[k]]_vars

\* C33 witness: the call returned for a payload without sdkVersion; the
\* caller's map still has none, the map in flight has it.
C33_Witness ==
    /\ call.fn = "sendExternalSpan" /\ call.done
    /\ "sdkVersion" \notin DOMAIN call.payload
    /\ \E i \in DOMAIN inflight :
          /\ "sdkVersion" \in DOMAIN inflight[i]
          /\ inflight[i].id = call.payload.id


\* the span whose entry is on top of a stack has completed
TopCompleted(stack) ==
    /\ stack # << >>
    /\ \E c \in Completed : c.spanID = stack[Len(stack)].spanID

\* C34 (as stated): every entry of the stack seen through a context that a
\* goroutine holds is a span that has not completed, so that no new span can
\* be started under a completed one.
C34_StackHoldsOpenSpans ==
    \A t \in Threads :
        \A k \in 1..Len(stackOf(arrays, ctx[t])) :
            \A c \in Completed : c.spanID # stackOf(arrays, ctx[t])[k].spanID

\* the contexts that exist: the ones goroutines hold and the ones spans were
\* started from or have produced
KnownContexts ==
    {ctx[t] : t \in Threads} \cup {c.inCtx : c \in created}
        \cup {c.outCtx : c \in created}

\* C34 (amended): every entry of a context stack is a span that was started
\* before the context was made; no step, completion included, changes the
\* stack seen through an existing context; and a span started from a context
\* takes the top entry of that stack as its parent, a span started earlier,
\* whether or not that span has completed meanwhile.
C34_CompletionPopsNothing ==
    /\ [](\A a \in 1..Len(arrays) : \A k \in 1..Len(arrays[a]) :
              \E c \in created :
                  /\ c.spanID = arrays[a][k].spanID
                  /\ c.traceID = arrays[a][k].traceID)
    /\ [](\A c \in created :
              LET top == IF c.inStack = << >> THEN NilEntry
                         ELSE c.inStack[Len(c.inStack)]
              IN  /\ c.parent = top
                  /\ c.parentSpanID = top.spanID
                  /\ top # NilEntry => top.spanID < c.spanID)
    /\ [][\A c \in KnownContexts :
              stackOf(arrays', c) = stackOf(arrays, c)]_vars

\* C34 witness: the context a goroutine holds has a completed span on top,
\* and the record of a span started under that span has been handed over
\* with its id as parent_id.
C34_Witness ==
    /\ TopCompleted(stackOf(arrays, ctx[1]))
    /\ \E c \in created :
          /\ c.inCtx = ctx[1]
          /\ c.via = "Span"
          /\ Len(c.inStack) = 1
          /\ \E h \in Handles :
                spans[h].done /\ spans[h].spanID = c.parentSpanID
          /\ \E i \in 1..Len(handed) :
                handed[i].id = c.spanID /\ handed[i].parent_id = c.parentSpanID


\* the key has at least one character that is not white space
HasNonBlank(key) == \E i \in 1..Len(key) : key[i] \notin {" ", "\t"}

\* what the options leave the flag at: on unless the WithEnabled given last
\* says off
OptionsLeaveOn(opts) == opts = << >> \/ opts[Len(opts)]

\* C35: the client NewClient returns is enabled exactly when the options
\* did not switch enabling off and the key has a non-blank character: on by
\* default, off for an empty or all-blank key even under WithEnabled(true),
\* and never on when the options left it off.
C35_EnabledIffKeyAndOption ==
    (call.fn = "NewClient" /\ call.done) =>
        /\ enabled = (OptionsLeaveOn(call.opts) /\ HasNonBlank(call.apiKey))
        /\ (call.opts = << >> /\ HasNonBlank(call.apiKey)) => enabled
        /\ ~HasNonBlank(call.apiKey) => ~enabled
        /\ ~OptionsLeaveOn(call.opts) => ~enabled

\* C35 witness: NewClient was called with an all-blank key and
\* WithEnabled(true), and returned a disabled client.
C35_Witness ==
    /\ call.fn = "NewClient" /\ call.done
    /\ call.apiKey = <<" ", "\t">>
    /\ call.opts = <<TRUE>>
    /\ ~enabled


\* the frame of the Span call whose wrapped function is running innermost
TopFrame == frames[1][Len(frames[1])]

\* creation log entries of closure-style spans
ViaSpan == {c \in created : c.via = "Span"}

\* every closure-style child whose record and whose parent's record have
\* both been handed over has its record first
ChildRecordFirst ==
    \A c, d \in ViaSpan :
        d.parentSpanID = c.spanID =>
            \A i \in RecordsOf(c.spanID), j \in RecordsOf(d.spanID) : j < i

\* C36 (as stated): on an enabled client every return of a wrapped function
\* hands exactly one record of that span to delivery, nothing is handed over
\* while the function runs, a child's record comes before its parent's, and
\* the completed closure-style spans are as many as their records.
C36_OneRecordPerSpanCall ==
    /\ [][\A r \in Returns :
              (enabled /\ SpanReturn(1, r[1], r[2])) =>
                  /\ Len(handed') = Len(handed) + 1
                  /\ handed'[Len(handed')].id = TopFrame.spanID]_vars
    /\ [](\A c \in ViaSpan :
              Cardinality(RecordsOf(c.spanID)) =
                  IF c \in Completed THEN 1 ELSE 0)
    /\ []ChildRecordFirst

\* C36 (amended): the same, except that a wrapped function returning an
\* error whose Error() panics completes its span with no record: the return
\* hands over one record of the span, or none in that case; Span hands over
\* nothing before the function has returned; a span has at most one record
\* and none before it completes; nested on one goroutine, a child's record
\* comes before its parent's.
C36_OneRecordUnlessErrorPanics ==
    /\ [][\A r \in Returns :
              (enabled /\ SpanReturn(1, r[1], r[2])) =>
                  IF r[2] = "errPanics"
                  THEN handed' = handed
                  ELSE /\ Len(handed') = Len(handed) + 1
                       /\ SubSeq(handed', 1, Len(handed)) = handed
                       /\ handed'[Len(handed')].id = TopFrame.spanID]_vars
    /\ [][SpanCall(1, NoOpt) => handed' = handed]_vars
    /\ [](\A c \in ViaSpan :
              Cardinality(RecordsOf(c.spanID)) <=
                  IF c \in Completed THEN 1 ELSE 0)
    /\ []ChildRecordFirst

\* C36 witness: a parent and its child, both closure-style, have completed;
\* two records were handed over, the child's first.
C36_Witness ==
    /\ frames[1] = << >>
    /\ Len(handed) = 2
    /\ handed[1].parent_id = handed[2].id
    /\ \E c, d \in ViaSpan :
          /\ c.spanID = handed[2].id /\ d.spanID = handed[1].id
          /\ {c, d} \subseteq Completed


\* C37: request returns nil only after at least one POST was sent and the
\* last one was answered with a 2xx response whose body carries no error
\* text, whatever the attempt count, zero and negative counts included.
C37_NilMeansDelivered ==
    (call.fn = "request" /\ call.done /\ ~call.result.panicked
        /\ call.result.err = NoErr) =>
        /\ posts(call.result.events) >= 1
        /\ posts(call.result.events) \in DOMAIN call.script
        /\ ~AttemptFails(call.script[posts(call.result.events)])
        /\ bodyErrorField(call.script[posts(call.result.events)].body) # "string"


\* C38: serializeValue terminates on every input, a value that reaches
\* itself through pointers, maps or slices included: the chain of nested
\* calls never outgrows the stack.
C38_SerializeTerminates ==
    call.fn = "walk" => (~call.overflow /\ ~crashed)


\* positions of the log at which createTraceState(id) was called
CreatesOf(id) ==
    {i \in DOMAIN call.log : call.log[i].op = "create" /\ call.log[i].id = id}

\* no deleteTraceState(id) took the store lock between calls i and j
NoDeleteBetween(id, i, j) ==
    \A k \in (i + 1)..(j - 1) :
        ~(call.log[k].op = "delete" /\ call.log[k].id = id)

\* what the three functions do to the store: get changes nothing; create
\* leaves every existing entry as it is, started_at included, adds an entry
\* for its id when there is none and returns the entry of its id; delete
\* removes the entry of its id and nothing else
StoreStep ==
    /\ \A t \in Threads, id \in TraceIDs :
          GetTraceStateCall(t, id) => states' = states
    /\ \A t \in Threads, id \in TraceIDs :
          CreateTraceStateCall(t, id) =>
              /\ DOMAIN states' = DOMAIN states \cup {id}
              /\ \A k \in DOMAIN states : states'[k] = states[k]
              /\ states'[id].TraceID = id
              /\ call'.log[Len(call'.log)].returned = states'[id]
    /\ \A t \in Threads, id \in TraceIDs :
          DeleteTraceStateCall(t, id) =>
              /\ DOMAIN states' = DOMAIN states \ {id}
              /\ \A k \in DOMAIN states' : states'[k] = states[k]

\* C39 (as stated): under any interleaving of the three functions, all
\* createTraceState calls for one id return the same entry, no create
\* overwrites an entry, and delete removes only the entry of its own id.
C39_OneEntryPerTrace ==
    /\ [](call.fn = "store" =>
              \A id \in TraceIDs : \A i, j \in CreatesOf(id) :
                  call.log[i].returned = call.log[j].returned)
    /\ [][call.fn = "store" => StoreStep]_vars

\* C39 (amended): the same, with the creates of one id returning the same
\* entry as long as no deleteTraceState of that id comes between them; a
\* create after such a delete returns a new entry with a later started_at.
C39_OneEntryUntilDeleted ==
    /\ [](call.fn = "store" =>
              \A id \in TraceIDs : \A i, j \in CreatesOf(id) :
                  i < j =>
                      IF NoDeleteBetween(id, i, j)
                      THEN call.log[i].returned = call.log[j].returned
                      ELSE call.log[i].returned.StartedAt
                               < call.log[j].returned.StartedAt)
    /\ [](call.fn = "store" =>
              \A id \in DOMAIN states : states[id].TraceID = id)
    /\ [][call.fn = "store" => StoreStep]_vars

\* C39 witness: two goroutines created the state of trace 1 one after the
\* other and got the same entry, while trace 2 has an entry of its own;
\* the entry of trace 1 still has the started_at of the first create.
C39_Witness ==
    /\ call.fn = "store"
    /\ Len(call.log) = 3
    /\ call.log[1].op = "create" /\ call.log[1].id = 1 /\ call.log[1].t = 1
    /\ call.log[2].op = "create" /\ call.log[2].id = 2
    /\ call.log[3].op = "create" /\ call.log[3].id = 1 /\ call.log[3].t = 2
    /\ call.log[3].returned = call.log[1].returned
    /\ states[1].StartedAt = 1 /\ states[2].StartedAt = 2


\* C40: on a disabled client a Span call with a span type outside the enum
\* is not rejected: the step that takes the call starts the wrapped
\* function, and the call returns what the function returned after running
\* it once, never the invalid-type error.
C40_DisabledSkipsTypeCheck ==
    /\ [](~enabled /\ ret.op = "Span" /\ ret.spanType \notin ClaimedTypes =>
              /\ ret.ran = 1
              /\ ret.result = ret.fnResult
              /\ ret.err = ret.fnErr
              /\ ret.err # InvalidTypeErr)
    /\ [][~enabled /\ SpanCall(1, "bogus") =>
              /\ Len(frames'[1]) = Len(frames[1]) + 1
              /\ ret' = ret]_vars

\* C40 witness: a disabled client's Span with type "bogus" has run its
\* function and returned the function's error.
C40_Witness ==
    /\ ~enabled
    /\ ret.op = "Span" /\ ret.spanType = "bogus"
    /\ ret.ran = 1
    /\ ret.fnErr = "errBoom" /\ ret.err = "errBoom"
    /\ handed = << >>
====
